---- MODULE Spec2Model ----
(***************************************************************************)
(* comment_sentiments: the per-video analysis pipeline                     *)
(* (CommentAnalysisTask), the thread-pool orchestrator                     *)
(* (YouTubeCommentAnalyzer) and the storage backends they write to.        *)
(***************************************************************************)
EXTENDS Integers, Sequences, FiniteSets, TLC

\* ------------------------------------------------------------------ bounds
MaxBatch == 1        \* longest list of ids given to the pool, detailed world
MaxComments == 2     \* most comments a video has, detailed world
PoolBatch == 3       \* longest list of ids given to the pool, pool world
PoolComments == 1    \* most comments a video has, pool world
MaxWorkers == 2      \* largest max_workers of the thread pool
MaxCacheItems == 2   \* max_cache_items of every client

\* ------------------------------------------------------------------ values
None == "None"

VideoIds == {"v1", "v2", "v3"}
ChannelIds == {"UC1"}
PlaylistIds == {"PL1"}
Labels == {"positive", "negative"}

\* The id of the i-th comment the data source returns for video v.  A comment
\* id is the text prefix + "_" + rest; FileStorage splits it at the "_".
CommentId(v, i) == <<v, i>>

\* What the data source knows about a video (videos().list snippet).
ChannelOf(v) == "UC1"
TitleOf(v) == IF v = "v1" THEN "Title 1" ELSE IF v = "v2" THEN "Title 2" ELSE "Title 3"
ChannelTitleOf(c) == "Channel 1"
PublishDateOf(v) == "2023-01-01T00:00:00Z"
TextOf(i) == IF i = 1 THEN "Great video!" ELSE "Another great video!"

\* SentimentAnalyzer.__init__: max_tokens, the most tokens the model takes.
MaxTokens == 512

\* A comment longer than the model takes, and the number of tokens the
\* tokenizer counts in a text.
LongText == "Great video! Great video! Great video! ..."
TokenLength(text) == IF text = LongText THEN MaxTokens + 1 ELSE 4

\* datetime.fromisoformat(s.replace('Z', '+00:00')): the parsed timestamp of
\* the strings the data source returns, and an AttributeError for None.
IsoError(s) == s = None
ParseIso(s) == IF s = "2023-01-01T00:00:00Z" THEN 19358
               ELSE IF s = "2023-01-02T00:00:00Z" THEN 19359
               ELSE 0

\* The elements of a sequence.
Range(s) == {s[k] : k \in DOMAIN s}

\* ------------------------------------------------------------------ state
VARIABLES
    env,        \* the world of this run: what the collaborators can do
    cfg,        \* the analyzer's construction arguments: save, max_workers, storage
    orch,       \* the calling thread: the entry point running and its result
    tasks,      \* one CommentAnalysisTask per submitted id (analyze_video calls)
    clients,    \* the YouTubeAPI instances: their video cache and who used them
    db,         \* SQLiteStorage tables
    fs,         \* FileStorage files
    now,        \* datetime.now(timezone.utc): days, or minutes in the store world
    sessions,   \* the open SQLAlchemy sessions of concurrent save calls
    ret         \* the storage call made last by a direct caller, and its outcome

vars == <<env, cfg, orch, tasks, clients, db, fs, now, sessions, ret>>

\* ------------------------------------------------------------------ storage
\* session.get(Model, key) or Model(key), the attribute updates, session.add:
\* insert-or-update of one row by primary key.
Upsert(table, key, row) ==
    [k \in DOMAIN table \cup {key} |-> IF k = key THEN row ELSE table[k]]

EmptyTable == [k \in {} |-> None]

\* SQLiteStorage.save_channel: the committed tables.
SqlSaveChannel(d, channel_data) ==
    [d EXCEPT !.channels = Upsert(@, channel_data.id, channel_data)]

\* SqlSaveVideo that leaves the row of an id already stored as it is.
SqlSaveVideoInsertOnly(d, video_data, t) ==
    IF video_data.id \in DOMAIN d.videos THEN d
    ELSE [d EXCEPT !.videos = Upsert(@, video_data.id,
            [id |-> video_data.id,
             title |-> video_data.title,
             published_at |-> video_data.published_at,
             channel_id |-> video_data.channel_id,
             last_analyzed_at |-> t])]

\* SqlSaveVideo stamping last_analyzed_at only on the first save of an id.
SqlSaveVideoStampOnce(d, video_data, t) ==
    [d EXCEPT !.videos = Upsert(@, video_data.id,
        [id |-> video_data.id,
         title |-> video_data.title,
         published_at |-> video_data.published_at,
         channel_id |-> video_data.channel_id,
         last_analyzed_at |-> IF video_data.id \in DOMAIN d.videos
                              THEN d.videos[video_data.id].last_analyzed_at ELSE t])]

\* SQLiteStorage.save_video: the committed tables; update_analyzed_at stamps t.
SqlSaveVideo(d, video_data, t) ==
    [d EXCEPT !.videos = Upsert(@, video_data.id,
        [id |-> video_data.id,
         title |-> video_data.title,
         published_at |-> video_data.published_at,
         channel_id |-> video_data.channel_id,
         last_analyzed_at |-> t])]

\* SQLiteStorage.save_comments: every comment of the list upserted by
\* comment_id and stamped with video_id, in one commit.
RECURSIVE SqlUpsertComments(_, _, _, _)
SqlUpsertComments(table, comments, video_id, t) ==
    IF comments = <<>> THEN table
    ELSE LET c == Head(comments) IN
         SqlUpsertComments(
            Upsert(table, c.comment_id,
                [comment_id |-> c.comment_id,
                 video_id |-> video_id,
                 text |-> c.text,
                 published_at |-> c.published_at,
                 updated_at |-> c.updated_at,
                 last_analyzed_at |-> t]),
            Tail(comments), video_id, t)

SqlSaveComments(d, comments, video_id, t) ==
    [d EXCEPT !.comments = SqlUpsertComments(@, comments, video_id, t)]

\* SQLiteStorage.save_sentiment_results: every result upserted by comment_id.
RECURSIVE SqlUpsertSentiments(_, _, _)
SqlUpsertSentiments(table, results, t) ==
    IF results = <<>> THEN table
    ELSE LET r == Head(results) IN
         SqlUpsertSentiments(
            Upsert(table, r.comment_id,
                [comment_id |-> r.comment_id,
                 label |-> r.label,
                 score |-> r.score,
                 last_analyzed_at |-> t]),
            Tail(results), t)

SqlSaveSentimentResults(d, results, t) ==
    [d EXCEPT !.sentiments = SqlUpsertSentiments(@, results, t)]

\* SQLiteStorage.save_playlist: ValueError when the channel row is missing.
SqlPlaylistChannelMissing(d, playlist_data) ==
    playlist_data.channel_id \notin DOMAIN d.channels

SqlSavePlaylist(d, playlist_data) ==
    [d EXCEPT !.playlists = Upsert(@, playlist_data.id, playlist_data)]

\* FileStorage.save_video: <video_id>/<video_id>_info.json rewritten.
FileSaveVideo(f, video_data, t) ==
    [f EXCEPT !.info = Upsert(@, video_data.id,
        [id |-> video_data.id,
         title |-> video_data.title,
         published_at |-> video_data.published_at,
         channel_id |-> video_data.channel_id,
         last_analyzed_at |-> t])]

\* FileStorage.save_comments: <video_id>/<video_id>_comments.json rewritten
\* with the comments of this call.
FileComment(c, video_id, t) ==
    [comment_id |-> c.comment_id,
     video_id |-> video_id,
     text |-> c.text,
     published_at |-> c.published_at,
     updated_at |-> c.updated_at,
     last_analyzed_at |-> t]

FileSaveComments(f, comments, video_id, t) ==
    [f EXCEPT !.comments = Upsert(@, video_id,
        [i \in 1..Len(comments) |-> FileComment(comments[i], video_id, t)])]

\* comment_id.split('_')[0]: the text before the first "_" of a comment id.
SplitPrefix(comment_id) == comment_id[1]

\* The subsequence of the results whose comment id has the given prefix.
RECURSIVE ByPrefix(_, _, _)
ByPrefix(results, prefix, t) ==
    IF results = <<>> THEN <<>>
    ELSE LET r == Head(results)
             rest == ByPrefix(Tail(results), prefix, t)
         IN IF SplitPrefix(r.comment_id) = prefix
            THEN <<[comment_id |-> r.comment_id, label |-> r.label,
                    score |-> r.score, last_analyzed_at |-> t]>> \o rest
            ELSE rest

\* FileStorage.save_sentiment_results: the results grouped by the prefix of
\* their comment id, one <prefix>/<prefix>_sentiment.json rewritten per group.
FileSaveSentimentResults(f, results, t) ==
    LET prefixes == {SplitPrefix(results[i].comment_id) : i \in 1..Len(results)}
    IN [f EXCEPT !.sentiment =
            [p \in DOMAIN @ \cup prefixes |->
                IF p \in prefixes THEN ByPrefix(results, p, t) ELSE @[p]]]

\* ------------------------------------------------------------------ task
\* Nullable numbers and timestamps: <<>> for None, <<x>> for the value x.
Null == <<>>
Some(x) == <<x>>

\* CommentAnalysisTask.__init__: the fields of a task on url_or_id using the
\* client api.
NewTask(url_or_id, api) ==
    [pc |-> "fetch_video",
     url_or_id |-> url_or_id,
     api |-> api,
     snippet |-> FALSE,          \* YouTubeVideo._snippet is loaded
     video_id |-> None,
     video_title |-> None,
     comments |-> <<>>,
     sentiment_results |-> <<>>,
     error |-> None,             \* the exception run() raised
     fetch_error |-> None,       \* the exception the metadata fetch raised
     write_failed |-> {},        \* the storage writes that raised
     calls |-> <<>>,             \* the collaborator calls made, in order
     requests |-> 0,             \* videos().list requests executed
     fetched |-> "no",           \* get_comments: "no" call yet, "raised", "returned"
     api_comments |-> <<>>,      \* what get_comments returned
     scored |-> "no",            \* analyze_batch: "no" call yet, "raised", "returned"
     texts |-> <<>>,             \* the texts given to analyze_batch
     returned |-> 0,             \* how many results analyze_batch returned
     collected |-> FALSE]        \* the future's result was taken by the caller

\* A submitted id whose analyze_video has not started yet (a queued future).
PendingTask(url_or_id) == [NewTask(url_or_id, 0) EXCEPT !.pc = "pending"]

\* run() left by an exception e.
Raise(t, e) == [t EXCEPT !.pc = "failed", !.error = e]

\* RaiseFetch raising a new error in place of the one it caught.
RaiseFetchWrapped(t, e) == [Raise(t, "RuntimeError") EXCEPT !.fetch_error = e]

\* The metadata fetch raised e, which _fetch_video_data logs and re-raises.
RaiseFetch(t, e) == [Raise(t, e) EXCEPT !.fetch_error = e]

\* The storage write name raised.
WriteFailed(t, name) == [t EXCEPT !.write_failed = @ \cup {name}]

Call(t, name) == [t EXCEPT !.calls = Append(@, name)]

\* SentimentCounts setting the count of a label to 1 at each of its results.
SentimentCountsOverwriting(results) ==
    [l \in {results[i].label : i \in 1..Len(results)} |-> 1]

\* _prepare_results, lines 176-179: the loop over the results,
\* sentiment_counts[sentiment] = sentiment_counts.get(sentiment, 0) + 1.
RECURSIVE SentimentCountsLoop(_, _)
SentimentCountsLoop(results, sentiment_counts) ==
    IF results = <<>> THEN sentiment_counts
    ELSE LET sentiment == Head(results).label
             count == IF sentiment \in DOMAIN sentiment_counts
                      THEN sentiment_counts[sentiment] ELSE 0
         IN SentimentCountsLoop(Tail(results),
                [l \in DOMAIN sentiment_counts \cup {sentiment} |->
                    IF l = sentiment THEN count + 1 ELSE sentiment_counts[l]])

\* _prepare_results: sentiment_counts, the number of results per label.
SentimentCounts(results) == SentimentCountsLoop(results, <<>>)

\* _prepare_results: the summary run() returns.
PrepareResults(t) ==
    [video_id |-> t.video_id,
     video_title |-> t.video_title,
     comment_count |-> Len(t.comments),
     sentiment_summary |-> SentimentCounts(t.sentiment_results),
     comments |-> t.comments,
     sentiment_results |-> t.sentiment_results]

\* _fetch_video_data, lines 64-74: the channel record built from the video.
ChannelData(v) ==
    [id |-> ChannelOf(v),
     name |-> ChannelTitleOf(ChannelOf(v)),
     custom_url |-> None,
     subscriber_count |-> Null,
     video_count |-> Null,
     view_count |-> Null,
     published_at |-> Null,
     country |-> None,
     uploads_playlist_id |-> None]

\* _fetch_video_data, lines 78-87: the video record built from the video.
VideoData(t) ==
    [id |-> t.video_id,
     title |-> t.video_title,
     published_at |-> ParseIso(PublishDateOf(t.video_id)),
     channel_id |-> ChannelOf(t.video_id)]

\* YouTubeVideo._ensure_details_loaded for one property access: nothing to do
\* when the snippet is loaded, else one videos().list request whose outcome o
\* is "ok", "unavailable" (HttpError or no item: swallowed) or "raise".
EnsureDetailsLoaded(t, o) ==
    IF t.snippet THEN t
    ELSE [t EXCEPT !.requests = @ + 1, !.snippet = (o = "ok")]

\* _fetch_video_data, lines 55-57 and 59-61: get_video, the id and title
\* reads, and with save the publish_date read and parse.  o0 is what
\* api.get_video does, o1 and o2 what the requests behind the title and the
\* publish_date reads do.
FetchVideoData(t, save, o0, o1, o2) ==
    LET t0 == Call(t, "get_video")
        t1 == EnsureDetailsLoaded([t0 EXCEPT !.video_id = t.url_or_id], o1)
        t2 == [t1 EXCEPT !.video_title =
                    IF t1.snippet THEN TitleOf(t.url_or_id) ELSE None]
        t3 == EnsureDetailsLoaded(t2, o2)
    IN  IF o0 = "raise" THEN RaiseFetch(t0, "ValueError")
        ELSE IF o1 = "raise" THEN RaiseFetch(t1, "ApiError")
        ELSE IF ~save THEN [t2 EXCEPT !.pc = "fetch_comments"]
        ELSE IF ~t2.snippet /\ o2 = "raise" THEN RaiseFetch(t3, "ApiError")
        ELSE IF ~t3.snippet THEN Raise(t3, "AttributeError")
        ELSE [t3 EXCEPT !.pc = "save_channel"]

\* _fetch_comments, lines 108-122: the comments in storage format; the
\* fromisoformat of a None updated_at raises.
ConvertError(api_comments) ==
    \E i \in 1..Len(api_comments) :
        IsoError(api_comments[i].published_at) \/ IsoError(api_comments[i].updated_at)

ConvertComments(api_comments) ==
    [i \in 1..Len(api_comments) |->
        [comment_id |-> api_comments[i].comment_id,
         text |-> api_comments[i].text,
         published_at |-> ParseIso(api_comments[i].published_at),
         updated_at |-> ParseIso(api_comments[i].updated_at)]]

\* AfterComments without the early return on an empty comment list.
AfterCommentsAlwaysScore(t) == [t EXCEPT !.pc = "analyze_sentiment"]

\* _analyze_sentiment, lines 135-137, then _prepare_results: with no comment
\* the task is done, else the scoring call is next.
AfterComments(t) ==
    IF t.comments = <<>> THEN [t EXCEPT !.pc = "done"]
    ELSE [t EXCEPT !.pc = "analyze_sentiment"]

\* _fetch_comments, lines 102-131 up to the save: raised tells whether
\* video.get_comments() raised, api_comments is what it returned.
FetchComments(t, save, raised, api_comments) ==
    LET t0 == Call(t, "get_comments")
    IN  IF raised
        THEN AfterComments([t0 EXCEPT !.comments = <<>>, !.fetched = "raised"])
        ELSE LET t1 == [t0 EXCEPT !.fetched = "returned", !.api_comments = api_comments] IN
             IF ConvertError(api_comments)
             THEN AfterComments([t1 EXCEPT !.comments = <<>>])
             ELSE LET t2 == [t1 EXCEPT !.comments = ConvertComments(api_comments)] IN
                  IF save /\ t2.comments # <<>>
                  THEN [t2 EXCEPT !.pc = "save_comments"]
                  ELSE AfterComments(t2)

\* SavedComments keeping the comment set after save_comments raised.
SavedCommentsKeeping(t, ok) ==
    LET t0 == Call(t, "save_comments")
    IN  IF ok THEN AfterComments(t0)
        ELSE AfterComments(WriteFailed(t0, "save_comments"))

\* SavedComments calling save_comments again after it raised.
SavedCommentsRetry(t, ok) ==
    LET t0 == Call(t, "save_comments")
    IN  IF ok THEN AfterComments(t0) ELSE WriteFailed(t0, "save_comments")

\* _fetch_comments, lines 126-131: after storage.save_comments returned (ok)
\* or raised.
SavedComments(t, ok) ==
    LET t0 == Call(t, "save_comments")
    IN  IF ok THEN AfterComments(t0)
        ELSE AfterComments([WriteFailed(t0, "save_comments") EXCEPT !.comments = <<>>])

\* SentimentAnalyzer.analyze_batch: zip(texts, raw_results), one result per
\* text for which the pipeline returned a label.
AnalyzeBatch(texts, raw_results) ==
    [i \in 1..(IF Len(texts) < Len(raw_results) THEN Len(texts) ELSE Len(raw_results)) |->
        [text |-> texts[i], sentiment |-> raw_results[i].label, score |-> raw_results[i].score]]

\* _analyze_sentiment, lines 141-163 up to the save: raised tells whether
\* analyze_batch raised, analysis_results is what it returned.
CommentTexts(comments) == [i \in 1..Len(comments) |-> comments[i].text]

\* _analyze_sentiment pairing as many results as there are comments and
\* dropping the rest.
AnalyzeSentimentTruncating(t, save, raised, analysis_results) ==
    LET t0 == [Call(t, "analyze_batch") EXCEPT !.texts = CommentTexts(t.comments)]
        n == IF Len(analysis_results) > Len(t.comments) THEN Len(t.comments)
             ELSE Len(analysis_results)
    IN  IF raised
        THEN [t0 EXCEPT !.sentiment_results = <<>>, !.scored = "raised", !.pc = "done"]
        ELSE LET t1 == [t0 EXCEPT
                    !.scored = "returned",
                    !.returned = Len(analysis_results),
                    !.sentiment_results =
                        [i \in 1..n |->
                            [comment_id |-> t.comments[i].comment_id,
                             label |-> analysis_results[i].sentiment,
                             score |-> analysis_results[i].score]]]
             IN IF save THEN [t1 EXCEPT !.pc = "save_sentiment_results"]
                ELSE [t1 EXCEPT !.pc = "done"]

AnalyzeSentiment(t, save, raised, analysis_results) ==
    LET t0 == [Call(t, "analyze_batch") EXCEPT !.texts = CommentTexts(t.comments)]
    IN  IF raised
        THEN [t0 EXCEPT !.sentiment_results = <<>>, !.scored = "raised", !.pc = "done"]
        ELSE IF Len(analysis_results) > Len(t.comments)
        THEN [t0 EXCEPT !.sentiment_results = <<>>, !.scored = "returned",
                        !.returned = Len(analysis_results), !.pc = "done"]
        ELSE LET t1 == [t0 EXCEPT
                    !.scored = "returned",
                    !.returned = Len(analysis_results),
                    !.sentiment_results =
                        [i \in 1..Len(analysis_results) |->
                            [comment_id |-> t.comments[i].comment_id,
                             label |-> analysis_results[i].sentiment,
                             score |-> analysis_results[i].score]]]
             IN IF save THEN [t1 EXCEPT !.pc = "save_sentiment_results"]
                ELSE [t1 EXCEPT !.pc = "done"]

\* _analyze_sentiment, lines 158-163: after storage.save_sentiment_results
\* returned (ok) or raised.
SavedSentimentResults(t, ok) ==
    LET t0 == Call(t, "save_sentiment_results")
    IN  IF ok THEN [t0 EXCEPT !.pc = "done"]
        ELSE [WriteFailed(t0, "save_sentiment_results") EXCEPT
                    !.sentiment_results = <<>>, !.pc = "done"]

\* ------------------------------------------------------------------ world
\* What video.get_comments() can return for video v: the first n comments of
\* the video, one of them possibly never edited (updated_at None).
ApiComment(v, i, nullAt) ==
    [comment_id |-> CommentId(v, i),
     text |-> TextOf(i),
     published_at |-> "2023-01-02T00:00:00Z",
     updated_at |-> IF i = nullAt THEN None ELSE "2023-01-02T00:00:00Z"]

\* The same list with the text of its longAt-th comment over-long.
WithLongText(api_comments, longAt) ==
    [i \in 1..Len(api_comments) |->
        IF i = longAt THEN [api_comments[i] EXCEPT !.text = LongText] ELSE api_comments[i]]

ApiCommentLists(v) ==
    {WithLongText([i \in 1..n |-> ApiComment(v, i, nullAt)], longAt) :
        n \in 0..env.max_comments,
        nullAt \in IF env.null_updated_at THEN 0..env.max_comments ELSE {0},
        longAt \in IF env.long_texts THEN 0..env.max_comments ELSE {0}}

\* What the sentiment pipeline can return for n texts: one label and score
\* per text.
ScoreOf(label) == IF label = "positive" THEN 80 ELSE 60

RawResults(n) ==
    {[i \in 1..n |-> [label |-> ls[i], score |-> ScoreOf(ls[i])]] : ls \in [1..n -> env.labels]}

\* What self.sentiment_analyzer.analyze_batch(comment_texts) can return.  The
\* SentimentAnalyzer returns AnalyzeBatch of what its pipeline gave, one raw
\* result per text; any other object handed to the task as its analyzer
\* returns a list of its own length, from none to one more than the texts.
AnalysisResults(texts) ==
    IF env.analyzer = "SentimentAnalyzer"
    THEN {AnalyzeBatch(texts, raw) : raw \in RawResults(Len(texts))}
    ELSE {[i \in 1..m |-> [text |-> IF i <= Len(texts) THEN texts[i] ELSE "",
                            sentiment |-> l, score |-> ScoreOf(l)]] :
            m \in 0..(Len(texts) + 1), l \in env.labels}

\* Whether a storage write commits (TRUE) or fails and raises (FALSE).
WriteOutcomes == IF env.storage_faults THEN BOOLEAN ELSE {TRUE}

\* What a details request of the wrapper can do: load the snippet, fail with
\* an HttpError or find no item (swallowed), or raise another exception.
Outcomes == IF env.unavailable THEN {"ok", "unavailable", "raise"} ELSE {"ok", "raise"}

\* The store left by an earlier run: video v1 under its former title with one
\* comment and its sentiment.
OldComment ==
    [comment_id |-> CommentId("v1", 1), text |-> "Old text",
     published_at |-> ParseIso("2023-01-02T00:00:00Z"),
     updated_at |-> ParseIso("2023-01-02T00:00:00Z")]

OldVideo ==
    [id |-> "v1", title |-> "Old title",
     published_at |-> ParseIso("2023-01-01T00:00:00Z"), channel_id |-> "UC1"]

OldSentiment == [comment_id |-> CommentId("v1", 1), label |-> "negative", score |-> 60]

EmptyDb ==
    [channels |-> EmptyTable, playlists |-> EmptyTable, videos |-> EmptyTable,
     comments |-> EmptyTable, sentiments |-> EmptyTable]

EmptyFs == [info |-> EmptyTable, comments |-> EmptyTable, sentiment |-> EmptyTable]

InitialDb(t) ==
    SqlSaveSentimentResults(
        SqlSaveComments(
            SqlSaveVideo(SqlSaveChannel(EmptyDb, ChannelData("v1")), OldVideo, t),
            <<OldComment>>, "v1", t),
        <<OldSentiment>>, t)

InitialFs(t) ==
    FileSaveSentimentResults(
        FileSaveComments(FileSaveVideo(EmptyFs, OldVideo, t), <<OldComment>>, "v1", t),
        <<OldSentiment>>, t)

Yesterday == ParseIso("2023-01-02T00:00:00Z") + 40
Today == Yesterday + 1

\* ------------------------------------------------------------------ API client
\* YouTubeAPI.__init__: a client with its own empty caches; users are the
\* tasks (0 for the analyzer's own thread) that called it.
NewClient ==
    [video_cache |-> <<>>, channel_cache |-> <<>>, playlist_cache |-> <<>>, users |-> {}]

InCache(cache_dict, key) == \E k \in 1..Len(cache_dict) : cache_dict[k] = key

\* _add_to_cache: a full cache loses its oldest key, then the key is added.
AddToCache(cache_dict, key, max_cache_items) ==
    IF Len(cache_dict) >= max_cache_items /\ cache_dict # <<>>
    THEN Append(Tail(cache_dict), key)
    ELSE Append(cache_dict, key)

\* A call on the client by the task by.
Use(api, by) == [api EXCEPT !.users = @ \cup {by}]

\* get_video, get_channel, get_playlist: a hit returns the cached object, a
\* miss adds the new one when the cache is on.
GetVideo(api, video_id, by) ==
    [Use(api, by) EXCEPT !.video_cache =
        IF cfg.use_cache /\ ~InCache(@, video_id)
        THEN AddToCache(@, video_id, cfg.max_cache_items) ELSE @]

GetChannel(api, channel_id, by) ==
    [Use(api, by) EXCEPT !.channel_cache =
        IF cfg.use_cache /\ ~InCache(@, channel_id)
        THEN AddToCache(@, channel_id, cfg.max_cache_items) ELSE @]

GetPlaylist(api, playlist_id, by) ==
    [Use(api, by) EXCEPT !.playlist_cache =
        IF cfg.use_cache /\ ~InCache(@, playlist_id)
        THEN AddToCache(@, playlist_id, cfg.max_cache_items) ELSE @]

\* ------------------------------------------------------------------ orchestrator
VideoNo(v) == IF v = "v1" THEN 1 ELSE IF v = "v2" THEN 2 ELSE 3

\* The lists of at most n video ids, up to a renaming of the ids: the k-th
\* new id of a list is the k-th video.
IdLists(n) ==
    {ids \in UNION {[1..k -> VideoIds] : k \in 0..n} :
        \A i \in 1..Len(ids) :
            \/ VideoNo(ids[i]) = 1
            \/ \E j \in 1..(i - 1) : VideoNo(ids[j]) >= VideoNo(ids[i]) - 1}

Running(t) == t.pc \notin {"pending", "done", "failed"}
Finished(t) == t.pc \in {"done", "failed"}

\* The calling thread before any entry point is called.
IdleOrch ==
    [pc |-> "idle",
     entry |-> None,             \* the entry point called
     results |-> <<>>,           \* the list returned
     error |-> None,             \* the exception that escaped the entry point
     caught |-> None,            \* the exception analyze_channel/playlist swallowed
     calls |-> <<>>,             \* the collaborator calls of this thread, in order
     snippet |-> FALSE,          \* the channel's or playlist's _snippet is loaded
     max_videos |-> 0,           \* analyze_channel's max_videos, 0 for None
     video_ids |-> <<>>]         \* the ids given to analyze_multiple_videos

OrchCall(o, name) == [o EXCEPT !.calls = Append(@, name)]

\* analyze_multiple_videos, lines 96-105: an empty list returns [] at once,
\* else one future per url is submitted to the pool.
SubmitAll(o, urls_or_ids) ==
    IF urls_or_ids = <<>> THEN [o EXCEPT !.pc = "returned", !.results = <<>>]
    ELSE [o EXCEPT !.pc = "as_completed", !.results = <<>>]

Futures(urls_or_ids) == [i \in 1..Len(urls_or_ids) |-> PendingTask(urls_or_ids[i])]

\* The detailed world: every behaviour of the collaborators, short batches,
\* and the analyzer's default use_api_cache=False.
DetailedWorld ==
    [max_batch |-> MaxBatch, max_comments |-> MaxComments, labels |-> Labels,
     null_updated_at |-> TRUE, unavailable |-> TRUE, storage_faults |-> TRUE,
     members |-> <<"v1">>, long_texts |-> FALSE, analyzer |-> "SentimentAnalyzer"]

\* The pool world: longer batches over videos with fewer comments, with
\* use_api_cache=True.
PoolWorld ==
    [max_batch |-> PoolBatch, max_comments |-> PoolComments, labels |-> {"positive"},
     null_updated_at |-> FALSE, unavailable |-> FALSE, storage_faults |-> FALSE,
     members |-> <<"v1", "v2">>, long_texts |-> FALSE, analyzer |-> "SentimentAnalyzer"]

Init ==
    /\ env = DetailedWorld
    /\ cfg \in [save : BOOLEAN, max_workers : 1..MaxWorkers,
                 backend : {"sqlite", "file"}, wrapped : BOOLEAN,
                 use_cache : {FALSE}, max_cache_items : {MaxCacheItems}]
    /\ orch = IdleOrch
    /\ tasks = <<>>
    /\ clients = (1 :> NewClient)
    /\ db = InitialDb(Yesterday)
    /\ fs = InitialFs(Yesterday)
    /\ now = Today
    /\ sessions = <<>>
    /\ ret = <<>>

\* analyze_video, lines 73-84, called directly: a new client and a task run
\* in the calling thread.
AnalyzeVideo ==
    /\ orch.pc = "idle"
    /\ \E url \in VideoIds :
        /\ orch' = [orch EXCEPT !.pc = "analyze_video", !.entry = "analyze_video"]
        /\ tasks' = <<NewTask(url, 2)>>
    /\ clients' = clients @@ (2 :> NewClient)
    /\ UNCHANGED <<env, cfg, sessions, ret, db, fs, now>>

\* analyze_video returning the summary of its task, or its error.
ReturnVideo ==
    /\ orch.pc = "analyze_video"
    /\ Finished(tasks[1])
    /\ orch' = IF tasks[1].pc = "done"
               THEN [orch EXCEPT !.pc = "returned", !.results = <<PrepareResults(tasks[1])>>]
               ELSE [orch EXCEPT !.pc = "raised", !.error = tasks[1].error]
    /\ tasks' = [tasks EXCEPT ![1].collected = TRUE]
    /\ UNCHANGED <<env, cfg, sessions, ret, clients, db, fs, now>>

\* analyze_multiple_videos called directly.
AnalyzeMultipleVideos ==
    /\ orch.pc = "idle"
    /\ \E ids \in IdLists(env.max_batch) :
        /\ orch' = SubmitAll([orch EXCEPT !.entry = "analyze_multiple_videos",
                              !.video_ids = ids], ids)
        /\ tasks' = Futures(ids)
    /\ UNCHANGED <<env, cfg, sessions, ret, clients, db, fs, now>>

\* StartWorker giving the task the analyzer's own client.
StartWorkerShared(i) ==
    /\ tasks[i].pc = "pending"
    /\ \A j \in 1..(i - 1) : tasks[j].pc # "pending"
    /\ Cardinality({j \in DOMAIN tasks : Running(tasks[j])}) < cfg.max_workers
    /\ tasks' = [tasks EXCEPT ![i] = NewTask(tasks[i].url_or_id, 1)]
    /\ UNCHANGED <<env, cfg, sessions, ret, clients, orch, db, fs, now>>

\* StartWorker on a pool that keeps one of its threads back.
StartWorkerStarved(i) ==
    /\ tasks[i].pc = "pending"
    /\ \A j \in 1..(i - 1) : tasks[j].pc # "pending"
    /\ Cardinality({j \in DOMAIN tasks : Running(tasks[j])}) < cfg.max_workers - 1
    /\ tasks' = [tasks EXCEPT ![i] = NewTask(tasks[i].url_or_id, i + 1)]
    /\ clients' = clients @@ ((i + 1) :> NewClient)
    /\ UNCHANGED <<env, cfg, sessions, ret, orch, db, fs, now>>

\* A pool thread takes the next queued future and enters analyze_video,
\* lines 73-84: a new client for this thread, then the task.
StartWorker(i) ==
    /\ tasks[i].pc = "pending"
    /\ \A j \in 1..(i - 1) : tasks[j].pc # "pending"
    /\ Cardinality({j \in DOMAIN tasks : Running(tasks[j])}) < cfg.max_workers
    /\ tasks' = [tasks EXCEPT ![i] = NewTask(tasks[i].url_or_id, i + 1)]
    /\ clients' = clients @@ ((i + 1) :> NewClient)
    /\ UNCHANGED <<env, cfg, sessions, ret, orch, db, fs, now>>

\* Collect without the except clause: the future's exception leaves
\* analyze_multiple_videos.
CollectUncaught(i) ==
    /\ orch.pc = "as_completed"
    /\ Finished(tasks[i])
    /\ ~tasks[i].collected
    /\ orch' = IF tasks[i].pc = "done"
               THEN [orch EXCEPT !.results = Append(@, PrepareResults(tasks[i]))]
               ELSE [orch EXCEPT !.pc = "raised", !.error = tasks[i].error]
    /\ tasks' = [tasks EXCEPT ![i].collected = TRUE]
    /\ UNCHANGED <<env, cfg, sessions, ret, clients, db, fs, now>>

\* analyze_multiple_videos, lines 107-114: as_completed yields a finished
\* future; its result is appended, its exception only logged.
Collect(i) ==
    /\ orch.pc = "as_completed"
    /\ Finished(tasks[i])
    /\ ~tasks[i].collected
    /\ orch' = IF tasks[i].pc = "done"
               THEN [orch EXCEPT !.results = Append(@, PrepareResults(tasks[i]))]
               ELSE orch
    /\ tasks' = [tasks EXCEPT ![i].collected = TRUE]
    /\ UNCHANGED <<env, cfg, sessions, ret, clients, db, fs, now>>

\* ReturnResults after the first yielded future instead of the last.
ReturnResultsEarly ==
    /\ orch.pc = "as_completed"
    /\ \E i \in DOMAIN tasks : tasks[i].collected
    /\ orch' = [orch EXCEPT !.pc = "returned"]
    /\ UNCHANGED <<env, cfg, sessions, ret, clients, tasks, db, fs, now>>

\* analyze_multiple_videos, line 116: every future was yielded.
ReturnResults ==
    /\ orch.pc = "as_completed"
    /\ \A i \in DOMAIN tasks : tasks[i].collected
    /\ orch' = [orch EXCEPT !.pc = "returned"]
    /\ UNCHANGED <<env, cfg, sessions, ret, clients, tasks, db, fs, now>>

\* ------------------------------------------------------------------ channel, playlist
\* The entry point returns [] after swallowing the exception e.
Swallow(o, e) == [o EXCEPT !.pc = "returned", !.results = <<>>, !.caught = e]

\* YouTubeChannel/YouTubePlaylist._ensure_details_loaded for one property
\* access, with the outcome o of its request.
OrchEnsureLoaded(o, out) == IF o.snippet THEN o ELSE [o EXCEPT !.snippet = (out = "ok")]

\* analyze_channel, lines 137-147: the channel record built from the channel.
FullChannelData(c) ==
    [id |-> c,
     name |-> ChannelTitleOf(c),
     custom_url |-> "@channel1",
     subscriber_count |-> Some(1000),
     video_count |-> Some(10),
     view_count |-> Some(10000),
     published_at |-> Some(ParseIso("2023-01-01T00:00:00Z")),
     country |-> "US",
     uploads_playlist_id |-> "UU1"]

\* analyze_channel, lines 152-158: the uploads playlist record.
UploadsPlaylistData(c) ==
    [id |-> "UU1",
     title |-> "Channel 1 - Uploads",
     channel_id |-> c,
     published_at |-> Some(ParseIso("2023-01-01T00:00:00Z")),
     video_count |-> 10]

\* analyze_playlist, lines 201-207: the playlist record.
PlaylistData(pl) ==
    [id |-> pl,
     title |-> "Playlist 1",
     channel_id |-> "UC1",
     published_at |-> Some(ParseIso("2023-01-01T00:00:00Z")),
     video_count |-> 2]

\* ChannelFetch going on to get_video_ids without the saves.
ChannelFetchUnsaved(o, save, o0, o1, o2) ==
    LET a0 == OrchCall(o, "get_channel")
        a1 == OrchEnsureLoaded(a0, o1)
    IN  IF o0 = "raise" THEN Swallow(a0, "ValueError")
        ELSE IF o1 = "raise" THEN Swallow(a1, "ApiError")
        ELSE [a1 EXCEPT !.pc = "get_video_ids"]

\* analyze_channel, lines 131-136: get_channel (o0), the name read of the log
\* line (o1) and with save the published_at read and parse (o2).
ChannelFetch(o, save, o0, o1, o2) ==
    LET a0 == OrchCall(o, "get_channel")
        a1 == OrchEnsureLoaded(a0, o1)
        a2 == OrchEnsureLoaded(a1, o2)
    IN  IF o0 = "raise" THEN Swallow(a0, "ValueError")
        ELSE IF o1 = "raise" THEN Swallow(a1, "ApiError")
        ELSE IF ~save THEN [a1 EXCEPT !.pc = "get_video_ids"]
        ELSE IF ~a1.snippet /\ o2 = "raise" THEN Swallow(a2, "ApiError")
        ELSE IF ~a2.snippet THEN Swallow(a2, "AttributeError")
        ELSE [a2 EXCEPT !.pc = "save_channel"]

\* analyze_playlist, lines 180-195: get_playlist (o0), the title read of the
\* log line (o1) and with save the channel_id read (o2).
PlaylistFetch(o, save, o0, o1, o2) ==
    LET a0 == OrchCall(o, "get_playlist")
        a1 == OrchEnsureLoaded(a0, o1)
        a2 == OrchEnsureLoaded(a1, o2)
    IN  IF o0 = "raise" THEN Swallow(a0, "ValueError")
        ELSE IF o1 = "raise" THEN Swallow(a1, "ApiError")
        ELSE IF ~save THEN [a1 EXCEPT !.pc = "get_video_ids"]
        ELSE IF ~a1.snippet /\ o2 = "raise" THEN Swallow(a2, "ApiError")
        ELSE [a2 EXCEPT !.pc = "save_channel"]

\* get_video_ids(max_results): nothing without the channel details, else the
\* first k member ids (an HttpError ends the paging early), cut to max_results.
Take(ids, n) == [i \in 1..(IF n < Len(ids) THEN n ELSE Len(ids)) |-> ids[i]]

GetVideoIds(loaded, k, max_results) ==
    IF ~loaded THEN <<>>
    ELSE IF max_results # 0 THEN Take(Take(env.members, k), max_results)
    ELSE Take(env.members, k)

\* analyze_channel called.
AnalyzeChannel ==
    /\ orch.pc = "idle"
    /\ \E max_videos \in {0, 1}, o0 \in {"ok", "raise"}, o1 \in Outcomes, o2 \in Outcomes :
        /\ orch' = ChannelFetch([orch EXCEPT !.entry = "analyze_channel",
                                            !.max_videos = max_videos],
                                cfg.save, o0, o1, o2)
        /\ clients' = [clients EXCEPT ![1] =
                IF o0 = "ok" THEN GetChannel(@, "UC1", 0) ELSE Use(@, 0)]
    /\ UNCHANGED <<env, cfg, sessions, ret, tasks, db, fs, now>>

\* analyze_playlist called.
AnalyzePlaylist ==
    /\ orch.pc = "idle"
    /\ \E o0 \in {"ok", "raise"}, o1 \in Outcomes, o2 \in Outcomes :
        /\ orch' = PlaylistFetch([orch EXCEPT !.entry = "analyze_playlist"],
                                 cfg.save, o0, o1, o2)
        /\ clients' = [clients EXCEPT ![1] =
                IF o0 = "ok" THEN GetPlaylist(@, "PL1", 0) ELSE Use(@, 0)]
    /\ UNCHANGED <<env, cfg, sessions, ret, tasks, db, fs, now>>

\* analyze_channel, line 148, and analyze_playlist, line 196:
\* storage.save_channel.  The playlist's channel record has no name when the
\* playlist details did not load, which SQLite refuses (name is NOT NULL).
OrchSaveChannel ==
    /\ orch.pc = "save_channel"
    /\ LET o == OrchCall(orch, "save_channel")
           data == IF orch.entry = "analyze_channel" THEN FullChannelData("UC1")
                   ELSE ChannelData("v1")
       IN \E ok \in WriteOutcomes :
            IF cfg.wrapped
            THEN /\ orch' = Swallow(o, "AttributeError")
                 /\ db' = db
            ELSE IF cfg.backend = "file"
            THEN /\ orch' = [o EXCEPT !.pc = "save_playlist"]
                 /\ db' = db
            ELSE IF ok /\ orch.snippet
            THEN /\ orch' = [o EXCEPT !.pc = "save_playlist"]
                 /\ db' = SqlSaveChannel(db, data)
            ELSE /\ orch' = Swallow(o, "SQLAlchemyError")
                 /\ db' = db
    /\ UNCHANGED <<env, cfg, sessions, ret, clients, tasks, fs, now>>

\* analyze_channel, line 159, and analyze_playlist, lines 198-208: the
\* published_at parse of the playlist (o3 is the request behind its read),
\* then storage.save_playlist.
OrchSavePlaylist ==
    /\ orch.pc = "save_playlist"
    /\ \E o3 \in Outcomes, ok \in WriteOutcomes :
        LET a == OrchEnsureLoaded(orch, o3)
            o == OrchCall(a, "save_playlist")
            data == IF orch.entry = "analyze_channel" THEN UploadsPlaylistData("UC1")
                    ELSE PlaylistData("PL1")
        IN  IF ~orch.snippet /\ o3 = "raise"
            THEN /\ orch' = Swallow(a, "ApiError")
                 /\ db' = db
            ELSE IF ~a.snippet
            THEN /\ orch' = Swallow(a, "AttributeError")
                 /\ db' = db
            ELSE IF cfg.backend = "file"
            THEN /\ orch' = [o EXCEPT !.pc = "get_video_ids"]
                 /\ db' = db
            ELSE IF SqlPlaylistChannelMissing(db, data)
            THEN /\ orch' = Swallow(o, "ValueError")
                 /\ db' = db
            ELSE IF ok
            THEN /\ orch' = [o EXCEPT !.pc = "get_video_ids"]
                 /\ db' = SqlSavePlaylist(db, data)
            ELSE /\ orch' = Swallow(o, "SQLAlchemyError")
                 /\ db' = db
    /\ UNCHANGED <<env, cfg, sessions, ret, clients, tasks, fs, now>>

\* analyze_channel, lines 161-164, and analyze_playlist, lines 210-213:
\* get_video_ids, then analyze_multiple_videos on the ids.
OrchGetVideoIds ==
    /\ orch.pc = "get_video_ids"
    /\ \E o3 \in Outcomes, paging \in {"ok", "raise"}, k \in 0..Len(env.members) :
        LET isChannel == orch.entry = "analyze_channel"
            a == IF isChannel THEN OrchEnsureLoaded(orch, o3) ELSE orch
            o == OrchCall(a, "get_video_ids")
            loaded == a.snippet \/ ~isChannel
            ids == GetVideoIds(loaded, k, orch.max_videos)
        IN  IF isChannel /\ ~orch.snippet /\ o3 = "raise"
            THEN /\ orch' = Swallow(o, "ApiError")
                 /\ tasks' = tasks
            ELSE IF loaded /\ paging = "raise"
            THEN /\ orch' = Swallow(o, "ApiError")
                 /\ tasks' = tasks
            ELSE /\ orch' = SubmitAll([o EXCEPT !.video_ids = ids], ids)
                 /\ tasks' = Futures(ids)
    /\ UNCHANGED <<env, cfg, sessions, ret, clients, db, fs, now>>

\* ------------------------------------------------------------------ task steps

\* run(), _fetch_video_data up to the first storage call.
FetchVideoStep(i) ==
    /\ tasks[i].pc = "fetch_video"
    /\ \E o0 \in {"ok", "raise"}, o1 \in Outcomes, o2 \in Outcomes :
        /\ tasks' = [tasks EXCEPT ![i] = FetchVideoData(tasks[i], cfg.save, o0, o1, o2)]
        /\ clients' = [clients EXCEPT ![tasks[i].api] =
                IF o0 = "ok" THEN GetVideo(@, tasks[i].url_or_id, i) ELSE Use(@, i)]
    /\ UNCHANGED <<env, cfg, sessions, ret, orch, db, fs, now>>

\* _fetch_video_data, line 75: storage.save_channel.  StorageFactory has no
\* save_channel (AttributeError); SQLiteStorage commits or rolls back and
\* raises; FileStorage does nothing.
SaveChannelStep(i) ==
    /\ tasks[i].pc = "save_channel"
    /\ LET t0 == Call(tasks[i], "save_channel") IN
        \E ok \in WriteOutcomes :
            IF cfg.wrapped
            THEN /\ tasks' = [tasks EXCEPT ![i] = Raise(t0, "AttributeError")]
                 /\ db' = db
            ELSE IF cfg.backend = "file"
            THEN /\ tasks' = [tasks EXCEPT ![i] = [t0 EXCEPT !.pc = "save_video"]]
                 /\ db' = db
            ELSE IF ok
            THEN /\ tasks' = [tasks EXCEPT ![i] = [t0 EXCEPT !.pc = "save_video"]]
                 /\ db' = SqlSaveChannel(db, ChannelData(tasks[i].video_id))
            ELSE /\ tasks' = [tasks EXCEPT ![i] =
                        Raise(WriteFailed(t0, "save_channel"), "SQLAlchemyError")]
                 /\ db' = db
    /\ UNCHANGED <<env, cfg, sessions, ret, clients, orch, fs, now>>

\* _fetch_video_data, lines 88-93: storage.save_video, whose error is
\* re-raised.
SaveVideoStep(i) ==
    /\ tasks[i].pc = "save_video"
    /\ LET t0 == Call(tasks[i], "save_video") IN
        \E ok \in WriteOutcomes :
            IF ~ok
            THEN /\ tasks' = [tasks EXCEPT ![i] =
                        Raise(WriteFailed(t0, "save_video"),
                              IF cfg.backend = "file" THEN "OSError" ELSE "SQLAlchemyError")]
                 /\ UNCHANGED <<db, fs>>
            ELSE /\ tasks' = [tasks EXCEPT ![i] = [t0 EXCEPT !.pc = "fetch_comments"]]
                 /\ IF cfg.backend = "file"
                    THEN /\ fs' = FileSaveVideo(fs, VideoData(tasks[i]), now)
                         /\ db' = db
                    ELSE /\ db' = SqlSaveVideo(db, VideoData(tasks[i]), now)
                         /\ fs' = fs
    /\ UNCHANGED <<env, cfg, sessions, ret, clients, orch, now>>

\* FetchCommentsStep saving whatever the save flag says.
FetchCommentsStepSaving(i) ==
    /\ tasks[i].pc = "fetch_comments"
    /\ \/ tasks' = [tasks EXCEPT ![i] = FetchComments(tasks[i], TRUE, TRUE, <<>>)]
       \/ \E api_comments \in ApiCommentLists(tasks[i].video_id) :
            tasks' = [tasks EXCEPT ![i] =
                        FetchComments(tasks[i], TRUE, FALSE, api_comments)]
    /\ UNCHANGED <<env, cfg, sessions, ret, clients, orch, db, fs, now>>

\* _fetch_comments up to the storage call.
FetchCommentsStep(i) ==
    /\ tasks[i].pc = "fetch_comments"
    /\ \/ tasks' = [tasks EXCEPT ![i] = FetchComments(tasks[i], cfg.save, TRUE, <<>>)]
       \/ \E api_comments \in ApiCommentLists(tasks[i].video_id) :
            tasks' = [tasks EXCEPT ![i] =
                        FetchComments(tasks[i], cfg.save, FALSE, api_comments)]
    /\ UNCHANGED <<env, cfg, sessions, ret, clients, orch, db, fs, now>>

\* _fetch_comments, line 126: storage.save_comments.
SaveCommentsStep(i) ==
    /\ tasks[i].pc = "save_comments"
    /\ \E ok \in WriteOutcomes :
        /\ tasks' = [tasks EXCEPT ![i] = SavedComments(tasks[i], ok)]
        /\ IF ~ok THEN UNCHANGED <<db, fs>>
           ELSE IF cfg.backend = "file"
           THEN /\ fs' = FileSaveComments(fs, tasks[i].comments, tasks[i].video_id, now)
                /\ db' = db
           ELSE /\ db' = SqlSaveComments(db, tasks[i].comments, tasks[i].video_id, now)
                /\ fs' = fs
    /\ UNCHANGED <<env, cfg, sessions, ret, clients, orch, now>>

\* AnalyzeSentimentStep letting the error of analyze_batch leave run().
AnalyzeSentimentStepUncaught(i) ==
    /\ tasks[i].pc = "analyze_sentiment"
    /\ \/ tasks' = [tasks EXCEPT ![i] =
                Raise([Call(tasks[i], "analyze_batch") EXCEPT !.scored = "raised"],
                      "RuntimeError")]
       \/ \E analysis_results \in AnalysisResults(CommentTexts(tasks[i].comments)) :
            tasks' = [tasks EXCEPT ![i] =
                        AnalyzeSentiment(tasks[i], cfg.save, FALSE, analysis_results)]
    /\ UNCHANGED <<env, cfg, sessions, ret, clients, orch, db, fs, now>>

\* _analyze_sentiment up to the storage call.
AnalyzeSentimentStep(i) ==
    /\ tasks[i].pc = "analyze_sentiment"
    /\ \/ tasks' = [tasks EXCEPT ![i] = AnalyzeSentiment(tasks[i], cfg.save, TRUE, <<>>)]
       \/ \E analysis_results \in AnalysisResults(CommentTexts(tasks[i].comments)) :
            tasks' = [tasks EXCEPT ![i] =
                        AnalyzeSentiment(tasks[i], cfg.save, FALSE, analysis_results)]
    /\ UNCHANGED <<env, cfg, sessions, ret, clients, orch, db, fs, now>>

\* _analyze_sentiment, line 158: storage.save_sentiment_results.
SaveSentimentResultsStep(i) ==
    /\ tasks[i].pc = "save_sentiment_results"
    /\ \E ok \in WriteOutcomes :
        /\ tasks' = [tasks EXCEPT ![i] = SavedSentimentResults(tasks[i], ok)]
        /\ IF ~ok THEN UNCHANGED <<db, fs>>
           ELSE IF cfg.backend = "file"
           THEN /\ fs' = FileSaveSentimentResults(fs, tasks[i].sentiment_results, now)
                /\ db' = db
           ELSE /\ db' = SqlSaveSentimentResults(db, tasks[i].sentiment_results, now)
                /\ fs' = fs
    /\ UNCHANGED <<env, cfg, sessions, ret, clients, orch, now>>

TaskStep(i) ==
    \/ FetchVideoStep(i)
    \/ SaveChannelStep(i)
    \/ SaveVideoStep(i)
    \/ FetchCommentsStep(i)
    \/ SaveCommentsStep(i)
    \/ AnalyzeSentimentStep(i)
    \/ SaveSentimentResultsStep(i)

Next ==
    \/ AnalyzeVideo
    \/ ReturnVideo
    \/ AnalyzeMultipleVideos
    \/ AnalyzeChannel
    \/ AnalyzePlaylist
    \/ OrchSaveChannel
    \/ OrchSavePlaylist
    \/ OrchGetVideoIds
    \/ \E i \in DOMAIN tasks : StartWorker(i)
    \/ \E i \in DOMAIN tasks : TaskStep(i)
    \/ \E i \in DOMAIN tasks : Collect(i)
    \/ ReturnResults

Spec == Init /\ [][Next]_vars

InitPool ==
    /\ env = PoolWorld
    /\ cfg \in [save : BOOLEAN, max_workers : 1..MaxWorkers,
                 backend : {"sqlite", "file"}, wrapped : BOOLEAN,
                 use_cache : {TRUE}, max_cache_items : {MaxCacheItems}]
    /\ orch = IdleOrch
    /\ tasks = <<>>
    /\ clients = (1 :> NewClient)
    /\ db = InitialDb(Yesterday)
    /\ fs = InitialFs(Yesterday)
    /\ now = Today
    /\ sessions = <<>>
    /\ ret = <<>>

SpecPool == InitPool /\ [][Next]_vars

\* The scheduling world: lists of up to LiveBatch ids whose videos have at
\* most one comment, every call able to raise, and the scheduling the code
\* relies on: a pool thread that can take a queued future does, a call a
\* task has made returns or raises, and the calling thread goes on when it
\* can (as_completed yields a finished future, the executor's exit lets
\* analyze_multiple_videos return).
LiveBatch == 2       \* longest list of ids given to the pool, scheduling world

LiveWorld ==
    [max_batch |-> LiveBatch, max_comments |-> 1, labels |-> {"positive"},
     null_updated_at |-> FALSE, unavailable |-> FALSE, storage_faults |-> TRUE,
     members |-> <<"v1", "v2">>, long_texts |-> FALSE, analyzer |-> "SentimentAnalyzer"]

InitLive ==
    /\ env = LiveWorld
    /\ cfg \in [save : BOOLEAN, max_workers : 1..MaxWorkers,
                 backend : {"sqlite"}, wrapped : {FALSE},
                 use_cache : {FALSE}, max_cache_items : {MaxCacheItems}]
    /\ orch = IdleOrch
    /\ tasks = <<>>
    /\ clients = (1 :> NewClient)
    /\ db = InitialDb(Yesterday)
    /\ fs = InitialFs(Yesterday)
    /\ now = Today
    /\ sessions = <<>>
    /\ ret = <<>>

Fairness ==
    /\ \A i \in 1..LiveBatch : WF_vars(i \in DOMAIN tasks /\ StartWorker(i))
    /\ \A i \in 1..LiveBatch : WF_vars(i \in DOMAIN tasks /\ TaskStep(i))
    /\ \A i \in 1..LiveBatch : WF_vars(i \in DOMAIN tasks /\ Collect(i))
    /\ WF_vars(ReturnResults)
    /\ WF_vars(ReturnVideo)

SpecFair == InitLive /\ [][Next]_vars /\ Fairness

\* The scoring world: one video of up to ScoringComments comments, any of
\* them possibly longer than the model takes, and as the task's analyzer any
\* object with an analyze_batch (the constructor takes it as an argument):
\* it returns fewer results than texts, as many, or one more, or raises.
ScoringComments == 2  \* most comments a video has, scoring world

ScoringWorld ==
    [max_batch |-> 1, max_comments |-> ScoringComments, labels |-> Labels,
     null_updated_at |-> FALSE, unavailable |-> FALSE, storage_faults |-> TRUE,
     members |-> <<"v1">>, long_texts |-> TRUE, analyzer |-> "any"]

InitScoring ==
    /\ env = ScoringWorld
    /\ cfg \in [save : BOOLEAN, max_workers : {1},
                 backend : {"sqlite"}, wrapped : {FALSE},
                 use_cache : {FALSE}, max_cache_items : {MaxCacheItems}]
    /\ orch = IdleOrch
    /\ tasks = <<>>
    /\ clients = (1 :> NewClient)
    /\ db = InitialDb(Yesterday)
    /\ fs = InitialFs(Yesterday)
    /\ now = Today
    /\ sessions = <<>>
    /\ ret = <<>>

SpecScoring == InitScoring /\ [][Next]_vars

\* ------------------------------------------------------------------ store world
\* The storage backends called directly (as the storage tests do): the same
\* calls go to a SQLiteStorage and to a FileStorage, and SQLiteStorage save
\* calls of concurrent workers run as sessions of a read and a commit step.
\* Times are minutes in this world.
MaxCalls == 3        \* storage calls the direct caller makes in a row
MaxSessions == 2     \* concurrent save calls on the SQLiteStorage
MaxStoreBatch == 2   \* longest list given to save_comments / save_sentiment_results

MinutesPerDay == 24 * 60
StoreStart == 40 * MinutesPerDay

StoreVideoIds == {"v1", "v2"}
StoreChannelIds == {"UC1", "UC2"}
StoreTitles == {"First title", "Second title"}
\* Comment ids: two with the prefix "v1" and one whose text before the "_" is
\* not a video id.
StoreCommentIds == {CommentId("v1", 1), CommentId("v1", 2), CommentId("w9", 1)}
StoreScores == {<<"positive", 90>>, <<"negative", 60>>}
StoreThresholds == {<<30, 7>>, <<1, 0>>}

\* A datetime: its instant and its tzinfo.  datetime.now(timezone.utc) and the
\* parsed API timestamps are aware.
Utc(x) == [at |-> x, tzinfo |-> "utc"]

\* The DateTime column of SQLite keeps no offset: a loaded value is naive.
SqlDateTime(x) == [at |-> x, tzinfo |-> None]

\* datetime.fromisoformat(value.isoformat()) of an aware value: aware again.
IsoDateTime(x) == [at |-> x, tzinfo |-> "utc"]

\* a - b raises TypeError for b None and for an aware and a naive operand.
SubtractRaises(a, b) == b = Null \/ a.tzinfo # b[1].tzinfo

\* (a - b).days: the whole days of the difference, rounded down.
DaysBetween(a, b) == (a.at - b[1].at) \div MinutesPerDay

\* NeedsReanalysis with a strict comparison of the video's age.
NeedsReanalysisTiesSkip(video, t, max_age_days, force_recent_days) ==
    IF video.last_analyzed_at = Null THEN "True"
    ELSE IF \/ SubtractRaises(Utc(t), video.published_at)
            \/ SubtractRaises(Utc(t), video.last_analyzed_at)
         THEN "TypeError"
    ELSE IF DaysBetween(Utc(t), video.published_at) < force_recent_days THEN "True"
    ELSE IF DaysBetween(Utc(t), video.last_analyzed_at) >= max_age_days THEN "True"
    ELSE "False"

\* NeedsReanalysis with a strict comparison of the time since the analysis.
NeedsReanalysisStrictAge(video, t, max_age_days, force_recent_days) ==
    IF video.last_analyzed_at = Null THEN "True"
    ELSE IF \/ SubtractRaises(Utc(t), video.published_at)
            \/ SubtractRaises(Utc(t), video.last_analyzed_at)
         THEN "TypeError"
    ELSE IF DaysBetween(Utc(t), video.published_at) <= force_recent_days THEN "True"
    ELSE IF DaysBetween(Utc(t), video.last_analyzed_at) > max_age_days THEN "True"
    ELSE "False"

\* NeedsReanalysis without its first line.
NeedsReanalysisNoAbsentCheck(video, t, max_age_days, force_recent_days) ==
    IF \/ SubtractRaises(Utc(t), video.published_at)
       \/ SubtractRaises(Utc(t), video.last_analyzed_at)
    THEN "TypeError"
    ELSE IF DaysBetween(Utc(t), video.published_at) <= force_recent_days THEN "True"
    ELSE IF DaysBetween(Utc(t), video.last_analyzed_at) >= max_age_days THEN "True"
    ELSE "False"

\* YTVideo.needs_reanalysis at time t: "True", "False" or the exception.
NeedsReanalysis(video, t, max_age_days, force_recent_days) ==
    IF video.last_analyzed_at = Null THEN "True"
    ELSE IF \/ SubtractRaises(Utc(t), video.published_at)
            \/ SubtractRaises(Utc(t), video.last_analyzed_at)
         THEN "TypeError"
    ELSE IF DaysBetween(Utc(t), video.published_at) <= force_recent_days THEN "True"
    ELSE IF DaysBetween(Utc(t), video.last_analyzed_at) >= max_age_days THEN "True"
    ELSE "False"

\* The rule FileStorage.get_videos_needing_analysis applies to one video.
FileNeedsAnalysis(video, t, max_age_days, force_recent_days) ==
    IF video.last_analyzed_at = Null THEN "True"
    ELSE IF \/ SubtractRaises(Utc(t), video.published_at)
            \/ SubtractRaises(Utc(t), video.last_analyzed_at)
         THEN "TypeError"
    ELSE IF \/ DaysBetween(Utc(t), video.published_at) <= force_recent_days
            \/ DaysBetween(Utc(t), video.last_analyzed_at) >= max_age_days
         THEN "True"
    ELSE "False"

\* SQLiteStorage.get_video: the row of the id as a new session loads it, or
\* None (Null).
SqlGetVideo(d, video_id) ==
    IF video_id \notin DOMAIN d.videos THEN Null
    ELSE LET row == d.videos[video_id] IN
         Some([id |-> row.id, title |-> row.title, channel_id |-> row.channel_id,
               published_at |-> IF row.published_at = Null THEN Null
                                ELSE Some(SqlDateTime(row.published_at[1])),
               last_analyzed_at |-> Some(SqlDateTime(row.last_analyzed_at))])

\* FileStorage.get_video: the info file of the id, its timestamps parsed.
FileGetVideo(f, video_id) ==
    IF video_id \notin DOMAIN f.info THEN Null
    ELSE LET data == f.info[video_id] IN
         Some([id |-> data.id, title |-> data.title, channel_id |-> data.channel_id,
               published_at |-> IF data.published_at = Null THEN Null
                                ELSE Some(IsoDateTime(data.published_at[1])),
               last_analyzed_at |-> Some(IsoDateTime(data.last_analyzed_at))])

\* SQLiteStorage.get_video_comments: the rows whose video_id is the id.
SqlGetVideoComments(d, video_id) ==
    {d.comments[k] : k \in {k \in DOMAIN d.comments : d.comments[k].video_id = video_id}}

\* FileStorage.get_video_comments: the comments file of the id, [] without one.
FileGetVideoComments(f, video_id) ==
    IF video_id \in DOMAIN f.comments THEN Range(f.comments[video_id]) ELSE {}

\* SQLiteStorage.get_comment_sentiment: the row of the comment id, or None
\* (Null).
SqlGetCommentSentiment(d, comment_id) ==
    IF comment_id \in DOMAIN d.sentiments
    THEN Some([label |-> d.sentiments[comment_id].label,
               score |-> d.sentiments[comment_id].score])
    ELSE Null

\* FileStorage.get_comment_sentiment: the first entry of the comment id in the
\* sentiment file of its prefix, or None.
FileGetCommentSentiment(f, comment_id) ==
    LET p == SplitPrefix(comment_id) IN
    IF p \notin DOMAIN f.sentiment THEN Null
    ELSE LET hits == {k \in DOMAIN f.sentiment[p] : f.sentiment[p][k].comment_id = comment_id}
         IN IF hits = {} THEN Null
            ELSE LET k == CHOOSE k \in hits : \A l \in hits : k <= l
                 IN Some([label |-> f.sentiment[p][k].label,
                          score |-> f.sentiment[p][k].score])

\* YTVideo.filter_needs_reanalysis over session.query(YTVideo).all(): the ids
\* of 'needs_analysis', or the exception needs_reanalysis raised.
SqlGetVideosNeedingAnalysis(d, t, max_age_days, force_recent_days) ==
    LET verdict == [v \in DOMAIN d.videos |->
                       NeedsReanalysis(SqlGetVideo(d, v)[1], t, max_age_days, force_recent_days)]
    IN IF \E v \in DOMAIN d.videos : verdict[v] = "TypeError"
       THEN [raised |-> "TypeError", ids |-> {}]
       ELSE [raised |-> None, ids |-> {v \in DOMAIN d.videos : verdict[v] = "True"}]

\* FileStorage.get_videos_needing_analysis over the video directories.
FileGetVideosNeedingAnalysis(f, t, max_age_days, force_recent_days) ==
    LET verdict == [v \in DOMAIN f.info |->
                       FileNeedsAnalysis(FileGetVideo(f, v)[1], t, max_age_days, force_recent_days)]
    IN IF \E v \in DOMAIN f.info : verdict[v] = "TypeError"
       THEN [raised |-> "TypeError", ids |-> {}]
       ELSE [raised |-> None, ids |-> {v \in DOMAIN f.info : verdict[v] = "True"}]

\* What the direct caller passes to the save calls.
StoreVideoData ==
    [id : StoreVideoIds, title : StoreTitles,
     published_at : {Null, Some(StoreStart - 3 * MinutesPerDay),
                     Some(StoreStart - 9 * MinutesPerDay)},
     channel_id : {"UC1"}]

StoreChannelData == [id : StoreChannelIds, name : {"Channel A", "Channel B"}]

StorePlaylistData == [id : PlaylistIds, title : StoreTitles, channel_id : StoreChannelIds]

\* The lists of distinct comment ids of at most n entries.
IdBatches(n) ==
    UNION {{s \in [1..k -> StoreCommentIds] : \A i, j \in 1..k : s[i] = s[j] => i = j}
           : k \in 1..n}

StoreComment(comment_id) ==
    [comment_id |-> comment_id, text |-> "Great video!",
     published_at |-> StoreStart - MinutesPerDay,
     updated_at |-> StoreStart - MinutesPerDay]

StoreResult(comment_id, ls) ==
    [comment_id |-> comment_id, label |-> ls[1], score |-> ls[2]]

\* The caller's record of its calls: how many, the name of the last, the
\* playlist_data of a save_playlist, the outcome on each backend, whether a
\* call has raised, the sessions in commit order, the video ids saved again under another title, what the
\* calls that returned gave each backend (latest per key), and the lists the
\* last get_videos_needing_analysis returned.
NoCall ==
    [n |-> 0, call |-> None, args |-> <<>>, sql |-> None, file |-> None,
     failed |-> FALSE, committed |-> <<>>, resaved |-> {},
     given_videos |-> [sql |-> EmptyTable, file |-> EmptyTable],
     given_comments |-> [sql |-> EmptyTable, file |-> EmptyTable],
     given_sentiments |-> [sql |-> EmptyTable, file |-> EmptyTable],
     needing |-> <<>>]

Called(name, sql, file) ==
    [ret EXCEPT !.n = @ + 1, !.call = name, !.args = <<>>, !.sql = sql, !.file = file,
                !.failed = @ \/ {sql, file} \ {"returned", None} # {}]

StoreWorld ==
    [max_batch |-> 0, max_comments |-> 0, labels |-> Labels,
     null_updated_at |-> FALSE, unavailable |-> FALSE, storage_faults |-> TRUE,
     members |-> <<>>, long_texts |-> FALSE, analyzer |-> "SentimentAnalyzer"]

InitStore ==
    /\ env = StoreWorld
    /\ cfg = [save |-> TRUE, max_workers |-> MaxSessions, backend |-> "sqlite",
              wrapped |-> FALSE, use_cache |-> FALSE, max_cache_items |-> MaxCacheItems]
    /\ orch = IdleOrch
    /\ tasks = <<>>
    /\ clients = (1 :> NewClient)
    /\ db = EmptyDb
    /\ fs = EmptyFs
    /\ now = StoreStart
    /\ sessions = <<>>
    /\ ret = NoCall

CallerIdle == ret.n < MaxCalls /\ sessions = <<>>

\* save_video(video_data) on both backends; the commit of the SQLite session
\* may raise (fault), which save_video rolls back and re-raises.
SaveVideoCall ==
    /\ CallerIdle
    /\ \E video_data \in StoreVideoData, fault \in BOOLEAN :
        /\ db' = IF fault THEN db ELSE SqlSaveVideo(db, video_data, now)
        /\ fs' = FileSaveVideo(fs, video_data, now)
        /\ ret' = [Called("save_video",
                          IF fault THEN "OperationalError" ELSE "returned", "returned")
                   EXCEPT !.given_videos.sql =
                              IF fault THEN @ ELSE Upsert(@, video_data.id, video_data),
                          !.given_videos.file = Upsert(@, video_data.id, video_data),
                          !.resaved =
                              IF /\ ~fault
                                 /\ video_data.id \in DOMAIN db.videos
                                 /\ video_data.id \in DOMAIN fs.info
                                 /\ db.videos[video_data.id].title # video_data.title
                                 /\ fs.info[video_data.id].title # video_data.title
                              THEN @ \cup {video_data.id} ELSE @]
    /\ UNCHANGED <<env, cfg, orch, tasks, clients, now, sessions>>

\* save_channel(channel_data): a row on SQLite, nothing on FileStorage.
SaveChannelCall ==
    /\ CallerIdle
    /\ \E channel_data \in StoreChannelData :
        /\ db' = SqlSaveChannel(db, channel_data)
        /\ ret' = Called("save_channel", "returned", "returned")
    /\ UNCHANGED <<env, cfg, orch, tasks, clients, fs, now, sessions>>

\* SavePlaylistCall without the lookup of the channel row.
SavePlaylistCallUnchecked ==
    /\ CallerIdle
    /\ \E playlist_data \in StorePlaylistData :
        /\ db' = SqlSavePlaylist(db, playlist_data)
        /\ ret' = [Called("save_playlist", "returned", "returned")
                   EXCEPT !.args = <<playlist_data>>]
    /\ UNCHANGED <<env, cfg, orch, tasks, clients, fs, now, sessions>>

\* save_playlist(playlist_data): ValueError on SQLite when the channel row is
\* missing, else the playlist row; nothing on FileStorage.
SavePlaylistCall ==
    /\ CallerIdle
    /\ \E playlist_data \in StorePlaylistData :
        IF SqlPlaylistChannelMissing(db, playlist_data)
        THEN /\ ret' = [Called("save_playlist", "ValueError", "returned")
                        EXCEPT !.args = <<playlist_data>>]
             /\ UNCHANGED db
        ELSE /\ db' = SqlSavePlaylist(db, playlist_data)
             /\ ret' = [Called("save_playlist", "returned", "returned")
                        EXCEPT !.args = <<playlist_data>>]
    /\ UNCHANGED <<env, cfg, orch, tasks, clients, fs, now, sessions>>

\* Time passes between two calls: a minute or a day.
Tick ==
    /\ CallerIdle
    /\ \E d \in {1, MinutesPerDay} : now' = now + d
    /\ ret' = Called("sleep", None, None)
    /\ UNCHANGED <<env, cfg, orch, tasks, clients, db, fs, sessions>>

\* A worker enters save_video or save_channel on the shared SQLiteStorage:
\* Session() opened, nothing read yet.
OpenSession ==
    /\ Len(sessions) < MaxSessions
    /\ \E call \in {"save_video", "save_channel"} :
        \E data \in IF call = "save_video"
                    THEN {vd \in StoreVideoData : vd.published_at = Null}
                    ELSE StoreChannelData :
            sessions' = Append(sessions,
                [call |-> call, data |-> data, pc |-> "get", found |-> FALSE, error |-> None])
    /\ UNCHANGED <<env, cfg, orch, tasks, clients, db, fs, now, ret>>

SessionTable(s) == IF s.call = "save_video" THEN db.videos ELSE db.channels

\* session.get(Model, id): the SELECT of the row, and Model(id=...) when
\* there is none.
SessionGet(w) ==
    /\ sessions[w].pc = "get"
    /\ sessions' = [sessions EXCEPT ![w].pc = "commit",
                                    ![w].found = sessions[w].data.id \in DOMAIN SessionTable(sessions[w])]
    /\ UNCHANGED <<env, cfg, orch, tasks, clients, db, fs, now, ret>>

\* session.add and session.commit: the flush emits an UPDATE of the row the
\* session read, or an INSERT of the row it created; the INSERT of a primary
\* key another session committed meanwhile raises IntegrityError, which the
\* handler rolls back and re-raises.
SessionCommit(w) ==
    /\ sessions[w].pc = "commit"
    /\ LET s == sessions[w] IN
        IF ~s.found /\ s.data.id \in DOMAIN SessionTable(s)
        THEN /\ sessions' = [sessions EXCEPT ![w].pc = "raised", ![w].error = "IntegrityError"]
             /\ UNCHANGED <<db, ret>>
        ELSE /\ db' = IF s.call = "save_video" THEN SqlSaveVideo(db, s.data, now)
                      ELSE SqlSaveChannel(db, s.data)
             /\ sessions' = [sessions EXCEPT ![w].pc = "returned"]
             /\ ret' = [ret EXCEPT !.committed = Append(@, w)]
    /\ UNCHANGED <<env, cfg, orch, tasks, clients, fs, now>>

\* The prefixes of a list of results in the order of their first appearance:
\* the keys of by_video in FileStorage.save_sentiment_results.
RECURSIVE GroupOrder(_)
GroupOrder(results) ==
    IF results = <<>> THEN <<>>
    ELSE LET front == GroupOrder(SubSeq(results, 1, Len(results) - 1))
             p == SplitPrefix(results[Len(results)].comment_id)
         IN IF p \in Range(front) THEN front ELSE Append(front, p)

\* FileStorage.save_comments left by an OSError: at open() the comments file
\* is as it was, during json.dump it is cut short (no record left readable).
FileSaveCommentsFailing(f, video_id, dumping) ==
    IF dumping THEN [f EXCEPT !.comments = Upsert(@, video_id, <<>>)] ELSE f

\* FileStorage.save_sentiment_results left by an OSError at its j-th group:
\* the files of the groups before are rewritten, the file of the j-th is as it
\* was (open) or cut short (json.dump), the files after are as they were.
FileSaveSentimentResultsFailing(f, results, t, j, dumping) ==
    LET order == GroupOrder(results)
        full == FileSaveSentimentResults(f, results, t).sentiment
        done == {order[k] : k \in 1..(j - 1)}
        cut == IF dumping THEN {order[j]} ELSE {}
    IN [f EXCEPT !.sentiment =
            [p \in DOMAIN @ \cup done \cup cut |->
                IF p \in done THEN full[p] ELSE IF p \in cut THEN <<>> ELSE @[p]]]

\* The latest value given for each key of a list, over the ones before.
RECURSIVE GivenAll(_, _, _)
GivenAll(given, keys, value) ==
    IF keys = <<>> THEN given
    ELSE GivenAll(Upsert(given, Head(keys), value), Tail(keys), value)

StoreFaults == {"none", "bad_record", "sql_commit", "file_open", "file_dump"}

SqlOutcome(fault) ==
    IF fault = "bad_record" THEN "KeyError"
    ELSE IF fault = "sql_commit" THEN "OperationalError" ELSE "returned"

FileOutcome(fault) ==
    IF fault = "bad_record" THEN "KeyError"
    ELSE IF fault \in {"file_open", "file_dump"} THEN "OSError" ELSE "returned"

\* save_comments(comments, video_id) on both backends.  A record without
\* 'comment_id' (bad_record) raises KeyError in both loops before any write;
\* the commit of the SQLite session may raise, which is rolled back; open()
\* or json.dump of the comments file may raise.
SaveCommentsCall ==
    /\ CallerIdle
    /\ \E ids \in IdBatches(MaxStoreBatch), fault \in StoreFaults :
        LET comments == [i \in 1..Len(ids) |-> StoreComment(ids[i])]
            video_id == "v1"
        IN
        /\ db' = IF fault \in {"bad_record", "sql_commit"} THEN db
                 ELSE SqlSaveComments(db, comments, video_id, now)
        /\ fs' = IF fault = "bad_record" THEN fs
                 ELSE IF fault \in {"file_open", "file_dump"}
                      THEN FileSaveCommentsFailing(fs, video_id, fault = "file_dump")
                 ELSE FileSaveComments(fs, comments, video_id, now)
        /\ ret' = [Called("save_comments", SqlOutcome(fault), FileOutcome(fault))
                   EXCEPT !.given_comments.sql =
                              IF SqlOutcome(fault) = "returned"
                              THEN GivenAll(@, ids, video_id) ELSE @,
                          !.given_comments.file =
                              IF FileOutcome(fault) = "returned"
                              THEN GivenAll(@, ids, video_id) ELSE @]
    /\ UNCHANGED <<env, cfg, orch, tasks, clients, now, sessions>>

\* save_sentiment_results(results) on both backends.  A result without
\* 'label' (bad_record) raises KeyError in both loops before any write; the
\* commit of the SQLite session may raise; open() or json.dump of the j-th
\* sentiment file may raise.
SaveSentimentResultsCall ==
    /\ CallerIdle
    /\ \E ids \in IdBatches(MaxStoreBatch), ls \in StoreScores, fault \in StoreFaults :
        LET results == [i \in 1..Len(ids) |-> StoreResult(ids[i], ls)] IN
        \E j \in 1..Len(GroupOrder(results)) :
        /\ fault \notin {"file_open", "file_dump"} => j = 1
        /\ db' = IF fault \in {"bad_record", "sql_commit"} THEN db
                 ELSE SqlSaveSentimentResults(db, results, now)
        /\ fs' = IF fault = "bad_record" THEN fs
                 ELSE IF fault \in {"file_open", "file_dump"}
                      THEN FileSaveSentimentResultsFailing(fs, results, now, j,
                                                           fault = "file_dump")
                 ELSE FileSaveSentimentResults(fs, results, now)
        /\ ret' = [Called("save_sentiment_results", SqlOutcome(fault), FileOutcome(fault))
                   EXCEPT !.given_sentiments.sql =
                              IF SqlOutcome(fault) = "returned"
                              THEN GivenAll(@, ids, [label |-> ls[1], score |-> ls[2]]) ELSE @,
                          !.given_sentiments.file =
                              IF FileOutcome(fault) = "returned"
                              THEN GivenAll(@, ids, [label |-> ls[1], score |-> ls[2]]) ELSE @]
    /\ UNCHANGED <<env, cfg, orch, tasks, clients, now, sessions>>

\* get_videos_needing_analysis(max_age_days, force_recent_days) on both
\* backends.
GetVideosNeedingAnalysisCall ==
    /\ CallerIdle
    /\ \E th \in StoreThresholds :
        LET sql == SqlGetVideosNeedingAnalysis(db, now, th[1], th[2])
            file == FileGetVideosNeedingAnalysis(fs, now, th[1], th[2])
        IN ret' = [Called("get_videos_needing_analysis",
                          IF sql.raised = None THEN "returned" ELSE sql.raised,
                          IF file.raised = None THEN "returned" ELSE file.raised)
                   EXCEPT !.needing = <<[max_age_days |-> th[1], force_recent_days |-> th[2],
                                         sql |-> sql.ids, file |-> file.ids]>>]
    /\ UNCHANGED <<env, cfg, orch, tasks, clients, db, fs, now, sessions>>

\* The store world: single-record saves, the reanalysis query and time.
NextStore ==
    \/ SaveVideoCall
    \/ SaveChannelCall
    \/ SavePlaylistCall
    \/ GetVideosNeedingAnalysisCall
    \/ Tick

SpecStore == InitStore /\ [][NextStore]_vars

\* The batch world: the batch saves of the same two backends.
NextBatch ==
    \/ SaveCommentsCall
    \/ SaveSentimentResultsCall

SpecBatch == InitStore /\ [][NextBatch]_vars

\* The sessions world: concurrent save_video / save_channel calls of the
\* pool's workers on one SQLiteStorage, which is empty or holds a video and
\* a channel saved before.
InitSessions ==
    /\ env = StoreWorld
    /\ cfg = [save |-> TRUE, max_workers |-> MaxSessions, backend |-> "sqlite",
              wrapped |-> FALSE, use_cache |-> FALSE, max_cache_items |-> MaxCacheItems]
    /\ orch = IdleOrch
    /\ tasks = <<>>
    /\ clients = (1 :> NewClient)
    /\ db \in {EmptyDb,
               SqlSaveVideo(SqlSaveChannel(EmptyDb, [id |-> "UC1", name |-> "Old channel"]),
                            [id |-> "v1", title |-> "Old title", published_at |-> Null,
                             channel_id |-> "UC1"],
                            StoreStart - MinutesPerDay)}
    /\ fs = EmptyFs
    /\ now = StoreStart
    /\ sessions = <<>>
    /\ ret = NoCall

NextSessions ==
    \/ OpenSession
    \/ \E w \in DOMAIN sessions : SessionGet(w)
    \/ \E w \in DOMAIN sessions : SessionCommit(w)

SpecSessions == InitSessions /\ [][NextSessions]_vars


\* ------------------------------------------------------------------ policy world
\* YTVideo.needs_reanalysis and the rule of FileStorage applied to one video
\* at a time: its timestamps (absent, aware or naive), the time of the call
\* and the two thresholds are drawn at the start.
PolicyNows == {StoreStart, StoreStart + 61}
PublishedAges ==
    {0 - 1, 3 * MinutesPerDay, 7 * MinutesPerDay, 7 * MinutesPerDay + 23 * 60,
     8 * MinutesPerDay, 40 * MinutesPerDay, 100 * MinutesPerDay}
AnalyzedAges ==
    {1, 29 * MinutesPerDay, 30 * MinutesPerDay - 1, 30 * MinutesPerDay,
     31 * MinutesPerDay}
MaxAgeDays == {0, 1, 30}
ForceRecentDays == {0, 7}

\* The timestamps of the given age at time t, aware and naive, and None.
Timestamps(t, ages) ==
    {Null} \cup {Some(Utc(t - a)) : a \in ages} \cup {Some(SqlDateTime(t - a)) : a \in ages}

InitPolicy ==
    /\ env = StoreWorld
    /\ cfg = [save |-> FALSE, max_workers |-> 1, backend |-> "sqlite",
              wrapped |-> FALSE, use_cache |-> FALSE, max_cache_items |-> MaxCacheItems]
    /\ orch = IdleOrch
    /\ tasks = <<>>
    /\ clients = (1 :> NewClient)
    /\ db = EmptyDb
    /\ fs = EmptyFs
    /\ now \in PolicyNows
    /\ sessions = <<>>
    /\ \E published_at \in Timestamps(now, PublishedAges),
          last_analyzed_at \in Timestamps(now, AnalyzedAges),
          max_age_days \in MaxAgeDays, force_recent_days \in ForceRecentDays :
            ret = [video |-> [published_at |-> published_at,
                              last_analyzed_at |-> last_analyzed_at],
                   max_age_days |-> max_age_days,
                   force_recent_days |-> force_recent_days,
                   called |-> FALSE, result |-> None, file_result |-> None]

\* video.needs_reanalysis(max_age_days, force_recent_days), and the rule of
\* FileStorage.get_videos_needing_analysis on the same video.
CallNeedsReanalysis ==
    /\ ~ret.called
    /\ ret' = [ret EXCEPT
                 !.called = TRUE,
                 !.result = NeedsReanalysis(ret.video, now, ret.max_age_days,
                                            ret.force_recent_days),
                 !.file_result = FileNeedsAnalysis(ret.video, now, ret.max_age_days,
                                                   ret.force_recent_days)]
    /\ UNCHANGED <<env, cfg, orch, tasks, clients, db, fs, now, sessions>>

SpecPolicy == InitPolicy /\ [][CallNeedsReanalysis]_vars

\* ------------------------------------------------------------------ filter world
\* YTComment.needs_reanalysis and the two filter_needs_reanalysis class
\* methods applied to a list of model objects drawn at the start.  An object
\* of the list carries its position as id.
MaxItems == 3        \* longest list given to filter_needs_reanalysis

\* a > b of two datetimes raises TypeError for an aware and a naive operand.
CompareRaises(a, b) == a[1].tzinfo # b[1].tzinfo

\* YTComment.needs_reanalysis: "True", "False", "None" (the value of
\* 'self.updated_at and ...' when updated_at is None) or the exception.
CommentNeedsReanalysis(comment) ==
    IF comment.last_analyzed_at = Null THEN "True"
    ELSE IF comment.updated_at = Null THEN "None"
    ELSE IF CompareRaises(comment.updated_at, comment.last_analyzed_at) THEN "TypeError"
    ELSE IF comment.updated_at[1].at > comment.last_analyzed_at[1].at THEN "True"
    ELSE "False"

\* The truth value 'if' gives the returned object.
Truthy(result) == result = "True"

\* The lists a filter call has built, or the exception it raised.
Filtered(needs_analysis, skip_analysis) ==
    [raised |-> None, needs_analysis |-> needs_analysis, skip_analysis |-> skip_analysis]
FilterRaised(error) ==
    [raised |-> error, needs_analysis |-> <<>>, skip_analysis |-> <<>>]

\* YTComment.filter_needs_reanalysis with every item put at the front of its
\* list.
RECURSIVE CommentFilterLoopPrepending(_, _, _)
CommentFilterLoopPrepending(comments, needs_analysis, skip_analysis) ==
    IF comments = <<>> THEN Filtered(needs_analysis, skip_analysis)
    ELSE LET comment == Head(comments)
             result == CommentNeedsReanalysis(comment)
         IN IF result = "TypeError" THEN FilterRaised("TypeError")
            ELSE IF Truthy(result)
                 THEN CommentFilterLoopPrepending(Tail(comments),
                          <<comment>> \o needs_analysis, skip_analysis)
            ELSE CommentFilterLoopPrepending(Tail(comments),
                     needs_analysis, <<comment>> \o skip_analysis)

\* The loop of YTComment.filter_needs_reanalysis over the rest of the list.
RECURSIVE CommentFilterLoop(_, _, _)
CommentFilterLoop(comments, needs_analysis, skip_analysis) ==
    IF comments = <<>> THEN Filtered(needs_analysis, skip_analysis)
    ELSE LET comment == Head(comments)
             result == CommentNeedsReanalysis(comment)
         IN IF result = "TypeError" THEN FilterRaised("TypeError")
            ELSE IF Truthy(result)
                 THEN CommentFilterLoop(Tail(comments),
                          Append(needs_analysis, comment), skip_analysis)
            ELSE CommentFilterLoop(Tail(comments),
                     needs_analysis, Append(skip_analysis, comment))

\* The loop of YTVideo.filter_needs_reanalysis over the rest of the list.
RECURSIVE VideoFilterLoop(_, _, _, _, _, _)
VideoFilterLoop(videos, t, max_age_days, force_recent_days, needs_analysis, skip_analysis) ==
    IF videos = <<>> THEN Filtered(needs_analysis, skip_analysis)
    ELSE LET video == Head(videos)
             result == NeedsReanalysis(video, t, max_age_days, force_recent_days)
         IN IF result = "TypeError" THEN FilterRaised("TypeError")
            ELSE IF Truthy(result)
                 THEN VideoFilterLoop(Tail(videos), t, max_age_days, force_recent_days,
                          Append(needs_analysis, video), skip_analysis)
            ELSE VideoFilterLoop(Tail(videos), t, max_age_days, force_recent_days,
                     needs_analysis, Append(skip_analysis, video))

\* YTComment.filter_needs_reanalysis(comments).
CommentFilterNeedsReanalysis(comments) == CommentFilterLoop(comments, <<>>, <<>>)

\* YTVideo.filter_needs_reanalysis(videos, max_age_days, force_recent_days)
\* at time t.
VideoFilterNeedsReanalysis(videos, t, max_age_days, force_recent_days) ==
    VideoFilterLoop(videos, t, max_age_days, force_recent_days, <<>>, <<>>)

\* The comments and videos a list is drawn from: timestamps absent, aware
\* (set in this session) or naive (loaded from SQLite).
FilterComments ==
    {[updated_at |-> u, last_analyzed_at |-> a] :
        u \in {Null, Some(Utc(StoreStart + 5)), Some(SqlDateTime(StoreStart))},
        a \in {Null, Some(Utc(StoreStart)), Some(SqlDateTime(StoreStart))}}
FilterVideos ==
    {[published_at |-> Some(p), last_analyzed_at |-> a] :
        p \in {Utc(StoreStart - 3 * MinutesPerDay), Utc(StoreStart - 100 * MinutesPerDay)},
        a \in {Null, Some(Utc(StoreStart - 1)), Some(Utc(StoreStart - 31 * MinutesPerDay)),
               Some(SqlDateTime(StoreStart - 31 * MinutesPerDay))}}

\* The lists of up to MaxItems objects of a set, each with its position.
ItemLists(objects) ==
    UNION {{[i \in 1..n |-> [id |-> i, updated_at |-> f[i].updated_at,
                              last_analyzed_at |-> f[i].last_analyzed_at]] :
               f \in [1..n -> objects]} : n \in 0..MaxItems}
VideoLists(objects) ==
    UNION {{[i \in 1..n |-> [id |-> i, published_at |-> f[i].published_at,
                              last_analyzed_at |-> f[i].last_analyzed_at]] :
               f \in [1..n -> objects]} : n \in 0..MaxItems}

NoFilterCall(kind, items) ==
    [kind |-> kind, items |-> items, max_age_days |-> 30, force_recent_days |-> 7,
     called |-> None, subject |-> 0, result |-> None,
     raised |-> None, needs_analysis |-> <<>>, skip_analysis |-> <<>>]

InitFilter ==
    /\ env = StoreWorld
    /\ cfg = [save |-> FALSE, max_workers |-> 1, backend |-> "sqlite",
              wrapped |-> FALSE, use_cache |-> FALSE, max_cache_items |-> MaxCacheItems]
    /\ orch = IdleOrch
    /\ tasks = <<>>
    /\ clients = (1 :> NewClient)
    /\ db = EmptyDb
    /\ fs = EmptyFs
    /\ now = StoreStart
    /\ sessions = <<>>
    /\ \/ \E comments \in ItemLists(FilterComments) : ret = NoFilterCall("comment", comments)
       \/ \E videos \in VideoLists(FilterVideos) : ret = NoFilterCall("video", videos)

\* comment.needs_reanalysis() on one comment of the list.
CommentNeedsReanalysisCall ==
    /\ ret.called = None
    /\ ret.kind = "comment"
    /\ \E i \in 1..Len(ret.items) :
          ret' = [ret EXCEPT !.called = "needs_reanalysis", !.subject = i,
                             !.result = CommentNeedsReanalysis(ret.items[i])]
    /\ UNCHANGED <<env, cfg, orch, tasks, clients, db, fs, now, sessions>>

\* YTComment.filter_needs_reanalysis(comments).
FilterCommentsCall ==
    /\ ret.called = None
    /\ ret.kind = "comment"
    /\ LET out == CommentFilterNeedsReanalysis(ret.items) IN
          ret' = [ret EXCEPT !.called = "filter_needs_reanalysis",
                             !.raised = out.raised,
                             !.needs_analysis = out.needs_analysis,
                             !.skip_analysis = out.skip_analysis]
    /\ UNCHANGED <<env, cfg, orch, tasks, clients, db, fs, now, sessions>>

\* YTVideo.filter_needs_reanalysis(videos, max_age_days, force_recent_days).
FilterVideosCall ==
    /\ ret.called = None
    /\ ret.kind = "video"
    /\ LET out == VideoFilterNeedsReanalysis(ret.items, now, ret.max_age_days,
                                             ret.force_recent_days) IN
          ret' = [ret EXCEPT !.called = "filter_needs_reanalysis",
                             !.raised = out.raised,
                             !.needs_analysis = out.needs_analysis,
                             !.skip_analysis = out.skip_analysis]
    /\ UNCHANGED <<env, cfg, orch, tasks, clients, db, fs, now, sessions>>

NextFilter ==
    \/ CommentNeedsReanalysisCall
    \/ FilterCommentsCall
    \/ FilterVideosCall

SpecFilter == InitFilter /\ [][NextFilter]_vars

\* ------------------------------------------------------------------ cache world
\* One YouTubeAPI client and a caller making get_video, get_channel and
\* get_playlist calls in a row.  A cache is the dict in insertion order: a
\* sequence of entries of a key and the object made for it; objects are
\* numbered as they are constructed.
MaxLookups == 5      \* get_* calls the caller makes in a row
CacheCapacities == {1, 2, 3}
CacheVideoIds == {"a", "b", "c", "d"}
CacheChannelIds == {"UC1", "UC2"}
CachePlaylistIds == {"PL1", "PL2"}

Entry(key, value) == [key |-> key, value |-> value]
Keys(cache_dict) == [i \in 1..Len(cache_dict) |-> cache_dict[i].key]
HasKey(cache_dict, key) == \E i \in 1..Len(cache_dict) : cache_dict[i].key = key
ValueOf(cache_dict, key) ==
    cache_dict[CHOOSE i \in 1..Len(cache_dict) : cache_dict[i].key = key].value

\* The lookup with a hit moving the entry to the end of the dict.
LookupOrCreateLru(cache_dict, key, created, use_cache, max_cache_items) ==
    IF use_cache /\ HasKey(cache_dict, key)
    THEN [cache |-> Append(SelectSeq(cache_dict, LAMBDA e : e.key # key),
                           Entry(key, ValueOf(cache_dict, key))),
          returned |-> ValueOf(cache_dict, key), hit |-> TRUE, created |-> created]
    ELSE [cache |-> IF use_cache
                    THEN AddToCache(cache_dict, Entry(key, created + 1), max_cache_items)
                    ELSE cache_dict,
          returned |-> created + 1, hit |-> FALSE, created |-> created + 1]

\* The body of get_video / get_channel / get_playlist after the id is
\* extracted: the cached object on a hit, else a new object, stored when the
\* cache is on.
LookupOrCreate(cache_dict, key, created, use_cache, max_cache_items) ==
    IF use_cache /\ HasKey(cache_dict, key)
    THEN [cache |-> cache_dict, returned |-> ValueOf(cache_dict, key),
          hit |-> TRUE, created |-> created]
    ELSE [cache |-> IF use_cache
                    THEN AddToCache(cache_dict, Entry(key, created + 1), max_cache_items)
                    ELSE cache_dict,
          returned |-> created + 1, hit |-> FALSE, created |-> created + 1]

NoLookup ==
    [n |-> 0, created |-> 0,
     inserted |-> [video |-> <<>>, channel |-> <<>>, playlist |-> <<>>],
     last |-> [cache |-> None, key |-> None, hit |-> FALSE, returned |-> 0,
               held |-> Null, before |-> <<>>]]

InitCache ==
    /\ env = StoreWorld
    /\ \E use_cache \in BOOLEAN, max_cache_items \in CacheCapacities :
          cfg = [save |-> FALSE, max_workers |-> 1, backend |-> "sqlite",
                 wrapped |-> FALSE, use_cache |-> use_cache,
                 max_cache_items |-> max_cache_items]
    /\ orch = IdleOrch
    /\ tasks = <<>>
    /\ clients = (1 :> NewClient)
    /\ db = EmptyDb
    /\ fs = EmptyFs
    /\ now = 0
    /\ sessions = <<>>
    /\ ret = NoLookup

\* What the caller sees of a get_* call on the named cache.
Looked(name, cache_dict, key, out) ==
    [n |-> ret.n + 1, created |-> out.created,
     inserted |-> [ret.inserted EXCEPT ![name] =
                      IF cfg.use_cache /\ ~out.hit THEN Append(@, key) ELSE @],
     last |-> [cache |-> name, key |-> key, hit |-> out.hit, returned |-> out.returned,
               held |-> IF HasKey(cache_dict, key)
                        THEN Some(ValueOf(cache_dict, key)) ELSE Null,
               before |-> cache_dict]]

\* api.get_video(video_id).
GetVideoCall ==
    /\ ret.n < MaxLookups
    /\ \E video_id \in CacheVideoIds :
          LET out == LookupOrCreate(clients[1].video_cache, video_id, ret.created,
                                    cfg.use_cache, cfg.max_cache_items)
          IN /\ clients' = [clients EXCEPT ![1].video_cache = out.cache]
             /\ ret' = Looked("video", clients[1].video_cache, video_id, out)
    /\ UNCHANGED <<env, cfg, orch, tasks, db, fs, now, sessions>>

\* api.get_channel(channel_id).
GetChannelCall ==
    /\ ret.n < MaxLookups
    /\ \E channel_id \in CacheChannelIds :
          LET out == LookupOrCreate(clients[1].channel_cache, channel_id, ret.created,
                                    cfg.use_cache, cfg.max_cache_items)
          IN /\ clients' = [clients EXCEPT ![1].channel_cache = out.cache]
             /\ ret' = Looked("channel", clients[1].channel_cache, channel_id, out)
    /\ UNCHANGED <<env, cfg, orch, tasks, db, fs, now, sessions>>

\* api.get_playlist(playlist_id).
GetPlaylistCall ==
    /\ ret.n < MaxLookups
    /\ \E playlist_id \in CachePlaylistIds :
          LET out == LookupOrCreate(clients[1].playlist_cache, playlist_id, ret.created,
                                    cfg.use_cache, cfg.max_cache_items)
          IN /\ clients' = [clients EXCEPT ![1].playlist_cache = out.cache]
             /\ ret' = Looked("playlist", clients[1].playlist_cache, playlist_id, out)
    /\ UNCHANGED <<env, cfg, orch, tasks, db, fs, now, sessions>>

NextCache ==
    \/ GetVideoCall
    \/ GetChannelCall
    \/ GetPlaylistCall

SpecCache == InitCache /\ [][NextCache]_vars

\* ------------------------------------------------------------------ registry world
\* StorageFactory._storage_registry, the class-level dict of the process: the
\* module is imported (which registers the built-in types), then a caller
\* registers storage classes and creates storages by name.  The dict is a
\* sequence of entries in insertion order; keyword arguments are the set of
\* their names.
MaxRegistryCalls == 3   \* register / create calls after the import

RegisterNames == {"redis", "Redis", "FILE"}
CreateNames == {"sqlite", "SQLite", "file", "redis", "Redis", "unknown"}
StorageClasses == {"RedisStorage", "OtherStorage"}
StorageKwargs == {{"path"}, {"path", "db_name"}}

\* str.lower() on the names used here.
Lower(name) ==
    CASE name = "SQLite" -> "sqlite"
      [] name = "FILE" -> "file"
      [] name = "Redis" -> "redis"
      [] OTHER -> name

\* The keyword parameters of the constructors; a registered class of the
\* caller's takes the keywords it is given.
Accepts(storage_class, kwargs) ==
    CASE storage_class = "FileStorage" -> kwargs \subseteq {"path"}
      [] storage_class = "SQLiteStorage" -> kwargs \subseteq {"path", "db_name"}
      [] OTHER -> TRUE

\* register_storage_type with the name used as the key as given.
RegisterStorageTypeAsGiven(registry, storage_type, storage_class) ==
    IF HasKey(registry, storage_type)
    THEN [i \in 1..Len(registry) |->
            IF registry[i].key = storage_type
            THEN Entry(storage_type, storage_class) ELSE registry[i]]
    ELSE Append(registry, Entry(storage_type, storage_class))

\* StorageFactory.register_storage_type: registry[storage_type.lower()] =
\* storage_class (a key already in the dict keeps its place).
RegisterStorageType(registry, storage_type, storage_class) ==
    LET key == Lower(storage_type) IN
    IF HasKey(registry, key)
    THEN [i \in 1..Len(registry) |->
            IF registry[i].key = key THEN Entry(key, storage_class) ELSE registry[i]]
    ELSE Append(registry, Entry(key, storage_class))

\* StorageFactory.__init__ with an unknown name falling back to the first
\* registered class.
StorageFactoryInitDefaulting(registry, storage_type, kwargs) ==
    LET key == Lower(storage_type)
        storage_class == IF HasKey(registry, key) THEN ValueOf(registry, key)
                         ELSE registry[1].value
    IN [raised |-> IF Accepts(storage_class, kwargs) THEN None ELSE "TypeError",
        message |-> Null,
        invoked |-> Some([storage_class |-> storage_class, kwargs |-> kwargs])]

\* StorageFactory.__init__(storage_type, **kwargs): the registered class is
\* called with the keywords, or ValueError names the given type and the
\* registered ones.
StorageFactoryInit(registry, storage_type, kwargs) ==
    LET key == Lower(storage_type) IN
    IF HasKey(registry, key)
    THEN LET storage_class == ValueOf(registry, key) IN
         [raised |-> IF Accepts(storage_class, kwargs) THEN None ELSE "TypeError",
          message |-> Null,
          invoked |-> Some([storage_class |-> storage_class, kwargs |-> kwargs])]
    ELSE [raised |-> "ValueError",
          message |-> Some([storage_type |-> storage_type,
                            registered_types |-> Keys(registry)]),
          invoked |-> Null]

NoRegistryCall ==
    [call |-> None, name |-> None, kwargs |-> {}, raised |-> None, message |-> Null,
     invoked |-> Null, before |-> <<>>]

InitRegistry ==
    /\ env = StoreWorld
    /\ cfg = [save |-> FALSE, max_workers |-> 1, backend |-> "sqlite",
              wrapped |-> FALSE, use_cache |-> FALSE, max_cache_items |-> MaxCacheItems]
    /\ orch = IdleOrch
    /\ tasks = <<>>
    /\ clients = (1 :> NewClient)
    /\ db = EmptyDb
    /\ fs = EmptyFs
    /\ now = 0
    /\ sessions = <<>>
    /\ ret = [loaded |-> FALSE, registry |-> <<>>, n |-> 0, registered |-> <<>>,
              last |-> NoRegistryCall]

\* import storage.storage_factory: the class body, then the two
\* register_storage_type calls at the end of the module.
ImportStorageFactory ==
    /\ ~ret.loaded
    /\ ret' = [ret EXCEPT
                 !.loaded = TRUE,
                 !.registry = RegisterStorageType(
                                  RegisterStorageType(<<>>, "file", "FileStorage"),
                                  "sqlite", "SQLiteStorage")]
    /\ UNCHANGED <<env, cfg, orch, tasks, clients, db, fs, now, sessions>>

\* StorageFactory.register_storage_type(storage_type, storage_class).
RegisterStorageTypeCall ==
    /\ ret.loaded
    /\ ret.n < MaxRegistryCalls
    /\ \E storage_type \in RegisterNames, storage_class \in StorageClasses :
          ret' = [ret EXCEPT
                    !.n = @ + 1,
                    !.registry = RegisterStorageType(@, storage_type, storage_class),
                    !.registered = Append(@, <<storage_type, storage_class>>),
                    !.last = [NoRegistryCall EXCEPT !.call = "register",
                                                    !.name = storage_type,
                                                    !.before = ret.registry]]
    /\ UNCHANGED <<env, cfg, orch, tasks, clients, db, fs, now, sessions>>

\* StorageFactory.create_storage(storage_type, **kwargs).
CreateStorageCall ==
    /\ ret.loaded
    /\ ret.n < MaxRegistryCalls
    /\ \E storage_type \in CreateNames, kwargs \in StorageKwargs :
          LET out == StorageFactoryInit(ret.registry, storage_type, kwargs) IN
          ret' = [ret EXCEPT
                    !.n = @ + 1,
                    !.last = [call |-> "create", name |-> storage_type, kwargs |-> kwargs,
                              raised |-> out.raised, message |-> out.message,
                              invoked |-> out.invoked, before |-> ret.registry]]
    /\ UNCHANGED <<env, cfg, orch, tasks, clients, db, fs, now, sessions>>

NextRegistry ==
    \/ ImportStorageFactory
    \/ RegisterStorageTypeCall
    \/ CreateStorageCall

SpecRegistry == InitRegistry /\ [][NextRegistry]_vars

\* ------------------------------------------------------------------ reanalysis world
\* A run of the pipeline followed by days passing and by
\* get_videos_needing_analysis on the storage the run wrote to.  Times are
\* days in this world, as in the runs of the detailed world.
MaxDaysPassing == 3   \* steps of time passing after the run
DaysPassing == {1, 28}
RunThresholds == {<<30, 7>>, <<1, 7>>, <<30, 60>>}

ReanalysisWorld ==
    [max_batch |-> 1, max_comments |-> 1, labels |-> {"positive"},
     null_updated_at |-> FALSE, unavailable |-> FALSE, storage_faults |-> FALSE,
     members |-> <<"v1">>, long_texts |-> FALSE, analyzer |-> "SentimentAnalyzer"]

NoQuery ==
    [days |-> 0, call |-> None, outcome |-> None, ids |-> {},
     max_age_days |-> 0, force_recent_days |-> 0]

InitReanalysis ==
    /\ env = ReanalysisWorld
    /\ cfg \in [save : BOOLEAN, max_workers : {1},
                 backend : {"sqlite", "file"}, wrapped : {FALSE},
                 use_cache : {FALSE}, max_cache_items : {MaxCacheItems}]
    /\ orch = IdleOrch
    /\ tasks = <<>>
    /\ clients = (1 :> NewClient)
    /\ db = InitialDb(Yesterday)
    /\ fs = InitialFs(Yesterday)
    /\ now = Today
    /\ sessions = <<>>
    /\ ret = NoQuery

\* A stored video as get_video loads it: SQLite gives the DateTime columns
\* back without an offset, FileStorage parses its ISO strings with it.
LoadedVideo(row, backend) ==
    [published_at |->
        Some(IF backend = "file" THEN IsoDateTime(row.published_at * MinutesPerDay)
             ELSE SqlDateTime(row.published_at * MinutesPerDay)),
     last_analyzed_at |->
        Some(IF backend = "file" THEN IsoDateTime(row.last_analyzed_at * MinutesPerDay)
             ELSE SqlDateTime(row.last_analyzed_at * MinutesPerDay))]

\* get_videos_needing_analysis of the run's storage on day t: the ids it
\* returns, or the exception of the rule applied to a stored video.
VideosNeedingAnalysis(backend, t, max_age_days, force_recent_days) ==
    LET stored == IF backend = "file" THEN fs.info ELSE db.videos
        verdict == [v \in DOMAIN stored |->
            IF backend = "file"
            THEN FileNeedsAnalysis(LoadedVideo(stored[v], backend), t * MinutesPerDay,
                                   max_age_days, force_recent_days)
            ELSE NeedsReanalysis(LoadedVideo(stored[v], backend), t * MinutesPerDay,
                                 max_age_days, force_recent_days)]
    IN IF \E v \in DOMAIN stored : verdict[v] = "TypeError"
       THEN [raised |-> "TypeError", ids |-> {}]
       ELSE [raised |-> None, ids |-> {v \in DOMAIN stored : verdict[v] = "True"}]

\* Days pass after the run has ended.
PassDays ==
    /\ orch.pc \in {"returned", "raised"}
    /\ ret.days < MaxDaysPassing
    /\ \E d \in DaysPassing : now' = now + d
    /\ ret' = [NoQuery EXCEPT !.days = ret.days + 1]
    /\ UNCHANGED <<env, cfg, orch, tasks, clients, db, fs, sessions>>

\* storage.get_videos_needing_analysis(max_age_days, force_recent_days) after
\* the run.
VideosNeedingAnalysisQuery ==
    /\ orch.pc \in {"returned", "raised"}
    /\ \E th \in RunThresholds :
        LET needing == VideosNeedingAnalysis(cfg.backend, now, th[1], th[2])
        IN ret' = [ret EXCEPT !.call = "get_videos_needing_analysis",
                              !.outcome = IF needing.raised = None THEN "returned"
                                          ELSE needing.raised,
                              !.ids = needing.ids,
                              !.max_age_days = th[1],
                              !.force_recent_days = th[2]]
    /\ UNCHANGED <<env, cfg, orch, tasks, clients, db, fs, now, sessions>>

NextReanalysis ==
    \/ Next
    \/ PassDays
    \/ VideosNeedingAnalysisQuery

SpecReanalysis == InitReanalysis /\ [][NextReanalysis]_vars

\* ------------------------------------------------------------------ delegation world
\* The object StorageFactory.create_storage("sqlite") returns, called by name
\* as the task and the orchestrator call self.storage: each operation of the
\* contract is applied to the object and, on the same tables, to the
\* SQLiteStorage it holds in _storage.
MaxDelegatedCalls == 3   \* calls made on the created storage in a row

ContractOperations ==
    {"save_channel", "save_playlist", "save_video", "save_comments",
     "save_sentiment_results", "get_video", "get_video_comments",
     "get_comment_sentiment", "get_videos_needing_analysis"}

\* The methods the StorageFactory class defines (storage_factory.py 55-74);
\* it has no __getattr__.
FactoryMethods ==
    {"save_video", "save_comments", "save_sentiment_results", "get_video",
     "get_video_comments", "get_comment_sentiment", "get_videos_needing_analysis"}

\* What the callers pass to each operation.
ContractArguments(name) ==
    IF name = "save_channel" THEN StoreChannelData
    ELSE IF name = "save_playlist" THEN StorePlaylistData
    ELSE IF name = "save_video" THEN {vd \in StoreVideoData : vd.title = "First title"}
    ELSE IF name \in {"save_comments", "save_sentiment_results"} THEN IdBatches(1)
    ELSE IF name \in {"get_video", "get_video_comments"} THEN StoreVideoIds
    ELSE IF name = "get_comment_sentiment" THEN StoreCommentIds
    ELSE StoreThresholds

Returned(d, result) == [outcome |-> "returned", result |-> <<result>>, db |-> d]
Raised(d, error) == [outcome |-> error, result |-> <<>>, db |-> d]

\* The call name(args) on the SQLiteStorage whose tables are d, at time t: its
\* outcome, what it returned, and the tables after it.
SQLiteStorageCall(name, d, args, t) ==
    IF name = "save_channel" THEN Returned(SqlSaveChannel(d, args), args.id)
    ELSE IF name = "save_playlist"
         THEN IF SqlPlaylistChannelMissing(d, args) THEN Raised(d, "ValueError")
              ELSE Returned(SqlSavePlaylist(d, args), args.id)
    ELSE IF name = "save_video" THEN Returned(SqlSaveVideo(d, args, t), args.id)
    ELSE IF name = "save_comments"
         THEN Returned(SqlSaveComments(d, [i \in 1..Len(args) |-> StoreComment(args[i])],
                                       "v1", t), args)
    ELSE IF name = "save_sentiment_results"
         THEN Returned(SqlSaveSentimentResults(d,
                    [i \in 1..Len(args) |-> StoreResult(args[i], <<"positive", 90>>)], t), args)
    ELSE IF name = "get_video" THEN Returned(d, SqlGetVideo(d, args))
    ELSE IF name = "get_video_comments" THEN Returned(d, SqlGetVideoComments(d, args))
    ELSE IF name = "get_comment_sentiment" THEN Returned(d, SqlGetCommentSentiment(d, args))
    ELSE LET needing == SqlGetVideosNeedingAnalysis(d, t, args[1], args[2])
         IN IF needing.raised = None THEN Returned(d, needing.ids)
            ELSE Raised(d, needing.raised)

\* The call name(args) on the StorageFactory object: a method of the class
\* returns self._storage.name(args), any other name is an AttributeError.
StorageFactoryCall(name, d, args, t) ==
    IF name \in FactoryMethods THEN SQLiteStorageCall(name, d, args, t)
    ELSE Raised(d, "AttributeError")

NoDelegatedCall == [n |-> 0, call |-> None, created |-> <<>>, concrete |-> <<>>]

InitDelegation ==
    /\ env = StoreWorld
    /\ cfg = [save |-> TRUE, max_workers |-> 1, backend |-> "sqlite",
              wrapped |-> TRUE, use_cache |-> FALSE, max_cache_items |-> MaxCacheItems]
    /\ orch = IdleOrch
    /\ tasks = <<>>
    /\ clients = (1 :> NewClient)
    /\ db = EmptyDb
    /\ fs = EmptyFs
    /\ now = StoreStart
    /\ sessions = <<>>
    /\ ret = NoDelegatedCall

\* self.storage.name(args) on the created storage; ret keeps, next to its
\* outcome, the outcome of the same call made on the SQLiteStorage directly.
CreatedStorageCall ==
    /\ ret.n < MaxDelegatedCalls
    /\ \E name \in ContractOperations :
        \E args \in ContractArguments(name) :
            LET created == StorageFactoryCall(name, db, args, now)
                concrete == SQLiteStorageCall(name, db, args, now)
            IN /\ db' = created.db
               /\ ret' = [n |-> ret.n + 1, call |-> name,
                          created |-> <<created>>, concrete |-> <<concrete>>]
    /\ UNCHANGED <<env, cfg, orch, tasks, clients, fs, now, sessions>>

\* Time passes between two calls: a day.
DelegationTick ==
    /\ ret.n < MaxDelegatedCalls
    /\ ret.call # "sleep"
    /\ now' = now + MinutesPerDay
    /\ ret' = [ret EXCEPT !.call = "sleep"]
    /\ UNCHANGED <<env, cfg, orch, tasks, clients, db, fs, sessions>>

NextDelegation ==
    \/ CreatedStorageCall
    \/ DelegationTick

SpecDelegation == InitDelegation /\ [][NextDelegation]_vars

\* ------------------------------------------------------------------ properties
DoneTasks == {i \in DOMAIN tasks : tasks[i].pc = "done"}

\* results lists the summaries of the tasks of S, each once, in some order.
ListsOnce(results, S) ==
    \E f \in [1..Len(results) -> S] :
        /\ \A k, l \in 1..Len(results) : f[k] = f[l] => k = l
        /\ \A i \in S : \E k \in 1..Len(results) : f[k] = i
        /\ \A k \in 1..Len(results) : results[k] = PrepareResults(tasks[f[k]])

\* C1: when a task of analyze_multiple_videos fails, no exception leaves
\* analyze_multiple_videos, every other task still runs to its end and the
\* summary of every task that succeeded is in the returned list, while the
\* failed id has no entry in it.
C1_FailureIsolated ==
    orch.entry = "analyze_multiple_videos" =>
        /\ orch.pc # "raised"
        /\ orch.error = None
        /\ orch.pc = "returned" =>
            /\ \A i \in DOMAIN tasks : Finished(tasks[i])
            /\ \A i \in DoneTasks : PrepareResults(tasks[i]) \in Range(orch.results)
            /\ Len(orch.results) = Cardinality(DoneTasks)
            /\ \A i \in DOMAIN tasks :
                (\A j \in DOMAIN tasks :
                    tasks[j].url_or_id = tasks[i].url_or_id => tasks[j].pc = "failed")
                => \A k \in 1..Len(orch.results) :
                        orch.results[k].video_id # tasks[i].url_or_id

\* A list of three ids returned two summaries: the second task failed.
C1_Witness ==
    /\ orch.entry = "analyze_multiple_videos"
    /\ orch.pc = "returned"
    /\ orch.video_ids = <<"v1", "v2", "v3">>
    /\ tasks[1].pc = "done"
    /\ tasks[2].pc = "failed"
    /\ tasks[3].pc = "done"
    /\ Len(orch.results) = 2

\* C2: analyze_multiple_videos returns one summary for every task that
\* succeeded, each exactly once and in completion order under every
\* interleaving of the workers; an empty list of ids returns an empty list
\* and starts no task.
C2_EachResultOnce ==
    orch.entry = "analyze_multiple_videos" =>
        /\ ListsOnce(orch.results, {i \in DoneTasks : tasks[i].collected})
        /\ orch.pc = "returned" => \A i \in DOMAIN tasks : tasks[i].collected
        /\ orch.video_ids = <<>> =>
            /\ orch.pc = "returned"
            /\ orch.results = <<>>
            /\ tasks = <<>>
            /\ DOMAIN clients = {1}

\* Two summaries were returned in the reverse of the order of submission.
C2_Witness ==
    /\ orch.entry = "analyze_multiple_videos"
    /\ orch.pc = "returned"
    /\ Len(orch.video_ids) = 3
    /\ Len(orch.results) = 3
    /\ orch.results[1].video_id = "v3"
    /\ orch.results[2].video_id = "v2"
    /\ orch.results[3].video_id = "v1"
    /\ orch.results[1].comment_count = 1

SaveCalls ==
    {"save_channel", "save_playlist", "save_video", "save_comments", "save_sentiment_results"}

\* C3: when the metadata fetch of a task raises, run() raises that same error
\* unchanged, and the task makes no storage write and no scoring call: the
\* fetch is its only collaborator call and both stores stay as they were.
C3_FetchErrorPropagates ==
    \A i \in DOMAIN tasks :
        tasks[i].fetch_error # None =>
            /\ tasks[i].pc = "failed"
            /\ tasks[i].error = tasks[i].fetch_error
            /\ tasks[i].calls = <<"get_video">>
            /\ tasks[i].scored = "no"
            /\ orch.entry = "analyze_video" =>
                /\ db = InitialDb(Yesterday)
                /\ fs = InitialFs(Yesterday)
                /\ orch.pc # "returned"
                /\ orch.pc = "raised" => orch.error = tasks[i].fetch_error

\* analyze_video with saving on raised the error of the details request.
C3_Witness ==
    /\ cfg.save
    /\ ~cfg.wrapped
    /\ orch.entry = "analyze_video"
    /\ orch.pc = "raised"
    /\ orch.error = "ApiError"
    /\ tasks[1].fetch_error = "ApiError"
    /\ tasks[1].requests = 1

\* C4: a task fails only from its first step: once the metadata fetch has
\* succeeded (the video's details are loaded), no later failure makes run()
\* raise.
C4_FailedOnlyFromCreated ==
    \A i \in DOMAIN tasks : tasks[i].pc = "failed" => ~tasks[i].snippet

\* C5: with the save flag off no store is written: both stores stay as they
\* were and neither a task nor the analyzer calls a save function, while the
\* summary still holds the fetched comments and their sentiment results.
C5_NoSaveNoWrite ==
    ~cfg.save =>
        /\ db = InitialDb(Yesterday)
        /\ fs = InitialFs(Yesterday)
        /\ Range(orch.calls) \cap SaveCalls = {}
        /\ \A i \in DOMAIN tasks :
            /\ Range(tasks[i].calls) \cap SaveCalls = {}
            /\ (tasks[i].pc = "done" /\ tasks[i].fetched = "returned"
                    /\ ~ConvertError(tasks[i].api_comments)) =>
                /\ PrepareResults(tasks[i]).comments = ConvertComments(tasks[i].api_comments)
                /\ tasks[i].scored = "returned" =>
                    /\ Len(PrepareResults(tasks[i]).sentiment_results)
                            = Len(tasks[i].api_comments)
                    /\ \A k \in 1..Len(tasks[i].api_comments) :
                            PrepareResults(tasks[i]).sentiment_results[k].comment_id
                                = tasks[i].api_comments[k].comment_id

\* analyze_video with saving off returned two comments and their results.
C5_Witness ==
    /\ ~cfg.save
    /\ orch.entry = "analyze_video"
    /\ orch.pc = "returned"
    /\ orch.results[1].comment_count = 2
    /\ Len(orch.results[1].sentiment_results) = 2
    /\ db = InitialDb(Yesterday)
    /\ fs = InitialFs(Yesterday)

\* What the configured store holds: the video rows and the comments of a video.
StoredVideos == IF cfg.backend = "file" THEN fs.info ELSE db.videos

StoredComments(v) ==
    IF cfg.backend = "file"
    THEN IF v \in DOMAIN fs.comments THEN Range(fs.comments[v]) ELSE {}
    ELSE {db.comments[k] : k \in {k \in DOMAIN db.comments : db.comments[k].video_id = v}}

Count(calls, name) == Cardinality({k \in DOMAIN calls : calls[k] = name})

\* C6: when fetching the comments raises, the task goes on with no comment:
\* the scoring is not called, run() ends with a summary of comment_count 0
\* and an empty sentiment_summary, and with saving on save_video was called
\* once and the video it saved is still stored.
C6_CommentFetchFailure ==
    \A i \in DOMAIN tasks :
        tasks[i].fetched = "raised" =>
            /\ tasks[i].pc = "done"
            /\ tasks[i].scored = "no"
            /\ Count(tasks[i].calls, "analyze_batch") = 0
            /\ PrepareResults(tasks[i]).comment_count = 0
            /\ DOMAIN PrepareResults(tasks[i]).sentiment_summary = {}
            /\ cfg.save =>
                /\ Count(tasks[i].calls, "save_video") = 1
                /\ tasks[i].video_id \in DOMAIN StoredVideos
                /\ StoredVideos[tasks[i].video_id].last_analyzed_at = now
                /\ Len(tasks) = 1 =>
                    StoredVideos[tasks[i].video_id].title = tasks[i].video_title

\* analyze_video with saving on returned an empty summary of a new video
\* whose row is stored, after get_comments raised.
C6_Witness ==
    /\ cfg.save
    /\ cfg.backend = "sqlite"
    /\ orch.entry = "analyze_video"
    /\ orch.pc = "returned"
    /\ tasks[1].fetched = "raised"
    /\ orch.results[1].comment_count = 0
    /\ "v2" \in DOMAIN db.videos

\* C7: when the scoring call raises, the task is done with no sentiment
\* result and an empty sentiment_summary, save_sentiment_results is not
\* called, comment_count is the number of the fetched comments, and with
\* saving on the comments saved before are still stored.
C7_ScoringFailure ==
    \A i \in DOMAIN tasks :
        tasks[i].scored = "raised" =>
            /\ tasks[i].pc = "done"
            /\ PrepareResults(tasks[i]).sentiment_results = <<>>
            /\ DOMAIN PrepareResults(tasks[i]).sentiment_summary = {}
            /\ Count(tasks[i].calls, "save_sentiment_results") = 0
            /\ PrepareResults(tasks[i]).comment_count = Len(tasks[i].api_comments)
            /\ Len(tasks[i].api_comments) > 0
            /\ (cfg.save /\ Len(tasks) = 1) =>
                /\ Count(tasks[i].calls, "save_comments") = 1
                /\ db.sentiments = InitialDb(Yesterday).sentiments
                /\ fs.sentiment = InitialFs(Yesterday).sentiment
                /\ \A k \in 1..Len(tasks[i].comments) :
                    \E c \in StoredComments(tasks[i].video_id) :
                        /\ c.comment_id = tasks[i].comments[k].comment_id
                        /\ c.text = tasks[i].comments[k].text
                        /\ c.last_analyzed_at = now

\* analyze_video with saving on returned two comments, stored, and no
\* sentiment result after analyze_batch raised.
C7_Witness ==
    /\ cfg.save
    /\ cfg.backend = "sqlite"
    /\ orch.entry = "analyze_video"
    /\ orch.pc = "returned"
    /\ tasks[1].scored = "raised"
    /\ orch.results[1].comment_count = 2
    /\ orch.results[1].sentiment_results = <<>>
    /\ CommentId("v2", 2) \in DOMAIN db.comments

\* C8: a storage write that fails is fatal for its own step only: after a
\* failed save_comments the fetched comments are still scored and are in the
\* summary, and after a failed save_sentiment_results the computed results
\* (one per scored text) are in the summary.
C8_WriteFailureLocal ==
    \A i \in DOMAIN tasks :
        tasks[i].pc = "done" =>
            /\ "save_comments" \in tasks[i].write_failed =>
                /\ tasks[i].scored # "no"
                /\ PrepareResults(tasks[i]).comments = ConvertComments(tasks[i].api_comments)
            /\ "save_sentiment_results" \in tasks[i].write_failed =>
                Len(PrepareResults(tasks[i]).sentiment_results) = Len(tasks[i].texts)

StepOrder ==
    <<"get_video", "save_channel", "save_video", "get_comments", "save_comments",
      "analyze_batch", "save_sentiment_results">>

Position(name) == CHOOSE k \in 1..Len(StepOrder) : StepOrder[k] = name

\* C9: the collaborator calls of one run are made in the order get_video,
\* save_channel, save_video, get_comments, save_comments, analyze_batch,
\* save_sentiment_results, each at most once (no call is repeated after it
\* failed), save_video comes right after save_channel, and the run ends only
\* after its last call.
C9_StepOrder ==
    \A i \in DOMAIN tasks :
        LET calls == tasks[i].calls IN
        /\ \A k \in 1..(Len(calls) - 1) : Position(calls[k]) < Position(calls[k + 1])
        /\ calls # <<>> => calls[1] = "get_video"
        /\ \A k \in 1..Len(calls) :
            calls[k] = "save_video" => k > 1 /\ calls[k - 1] = "save_channel"
        /\ Finished(tasks[i]) => calls # <<>>
        /\ tasks[i].pc = "pending" => calls = <<>>

\* A run with saving on made all seven calls, in order, and is done.
C9_Witness ==
    /\ orch.entry = "analyze_video"
    /\ tasks[1].pc = "done"
    /\ tasks[1].calls = StepOrder

\* C10: every task started by analyze_multiple_videos or analyze_video has a
\* client of its own: no two tasks have the same client, none has the
\* analyzer's own client, and no client, hence no cache, is used by two tasks.
C10_OwnClient ==
    LET started == {i \in DOMAIN tasks : tasks[i].pc # "pending"} IN
    /\ \A i \in started :
        /\ tasks[i].api \in DOMAIN clients
        /\ tasks[i].api # 1
        /\ clients[tasks[i].api].users \subseteq {i}
    /\ \A i, j \in started : i # j => tasks[i].api # tasks[j].api
    /\ \A c \in DOMAIN clients : Cardinality(clients[c].users) <= 1
    /\ clients[1].users \subseteq {0}

\* Two workers run at once, each with the video it fetched in the cache of
\* its own client.
C10_Witness ==
    /\ orch.entry = "analyze_multiple_videos"
    /\ Len(tasks) >= 2
    /\ Running(tasks[1])
    /\ Running(tasks[2])
    /\ clients[2] = [NewClient EXCEPT !.users = {1}, !.video_cache = <<"v1">>]
    /\ clients[3] = [NewClient EXCEPT !.users = {2}, !.video_cache = <<"v2">>]

\* ------------------------------------------------------------------ storage claims
AllReturned == \A w \in DOMAIN sessions : sessions[w].pc \in {"returned", "raised"}

\* The session that committed last among those saving the same row as w.
CommittedLast(w) ==
    LET same == {k \in DOMAIN ret.committed :
                    /\ sessions[ret.committed[k]].call = sessions[w].call
                    /\ sessions[ret.committed[k]].data.id = sessions[w].data.id}
    IN ret.committed[CHOOSE k \in same : \A l \in same : l <= k]

\* C11: when two workers save the same video id (or the same channel id)
\* concurrently, neither save call raises under any interleaving of their
\* read and commit steps, and once both have returned the store holds one
\* row for the id with the data of the call that committed last.
C11_ConcurrentSavesSucceed ==
    /\ \A w \in DOMAIN sessions : sessions[w].pc # "raised"
    /\ AllReturned =>
          \A w \in DOMAIN sessions :
              sessions[w].pc = "returned" =>
                  LET last == sessions[CommittedLast(w)] IN
                  /\ last.data.id \in DOMAIN SessionTable(last)
                  /\ IF last.call = "save_video"
                     THEN SessionTable(last)[last.data.id].title = last.data.title
                     ELSE SessionTable(last)[last.data.id] = last.data

\* The video a backend returns for an id matches the video_data of a save:
\* same id, title and channel_id, and published_at at the same instant.
SameVideo(video, video_data) ==
    /\ video # Null
    /\ video[1].id = video_data.id
    /\ video[1].title = video_data.title
    /\ video[1].channel_id = video_data.channel_id
    /\ IF video_data.published_at = Null THEN video[1].published_at = Null
       ELSE /\ video[1].published_at # Null
            /\ video[1].published_at[1].at = video_data.published_at[1]

\* C12: after any sequence of save_video calls each backend holds one video
\* per saved id and no other, and get_video(id) returns the fields of the
\* most recent save_video of that id that returned; a video saved again
\* under another title is stored under the latest title.
C12_LatestVideoWins ==
    /\ DOMAIN db.videos = DOMAIN ret.given_videos.sql
    /\ DOMAIN fs.info = DOMAIN ret.given_videos.file
    /\ \A id \in DOMAIN ret.given_videos.sql :
          SameVideo(SqlGetVideo(db, id), ret.given_videos.sql[id])
    /\ \A id \in DOMAIN ret.given_videos.file :
          SameVideo(FileGetVideo(fs, id), ret.given_videos.file[id])

C12_Witness ==
    /\ ret.call = "save_video"
    /\ ret.sql = "returned"
    /\ "v1" \in ret.resaved
    /\ DOMAIN db.videos = {"v1"}
    /\ SqlGetVideo(db, "v1")[1].title = "Second title"
    /\ FileGetVideo(fs, "v1")[1].title = "Second title"

\* C16: a save_playlist on the relational backend whose channel_id is not a
\* stored channel raises and leaves every table as it was; with a stored
\* channel it returns and the playlist row of the id holds the given data,
\* the other rows being as they were.
C16_PlaylistNeedsChannel ==
    [][(ret'.call = "save_playlist" /\ ret'.n # ret.n) =>
          LET playlist_data == ret'.args[1] IN
          IF playlist_data.channel_id \notin DOMAIN db.channels
          THEN ret'.sql = "ValueError" /\ db' = db
          ELSE /\ ret'.sql = "returned"
               /\ db'.playlists = Upsert(db.playlists, playlist_data.id, playlist_data)
               /\ db'.channels = db.channels
               /\ db'.videos = db.videos]_vars

C16_Witness ==
    /\ ret.call = "save_playlist"
    /\ ret.sql = "ValueError"
    /\ ret.args[1].channel_id = "UC2"
    /\ DOMAIN db.channels = {"UC1"}
    /\ DOMAIN db.playlists = {"PL1"}

\* C13: a save_comments or save_sentiment_results call that raises on a
\* backend leaves that backend's stored state as it was before the call, and
\* one that returns has stored every record of its list.
C13_BatchWritesAtomic ==
    [][(ret'.n # ret.n) =>
          /\ ret'.sql # "returned" => db' = db
          /\ ret'.file # "returned" => fs' = fs
          /\ ret'.sql = "returned" =>
                /\ DOMAIN ret'.given_comments.sql \subseteq DOMAIN db'.comments
                /\ DOMAIN ret'.given_sentiments.sql \subseteq DOMAIN db'.sentiments]_vars

\* The comment ids a list of stored comments holds, and whether each is
\* held once.
CommentIdsOf(stored) == {c.comment_id : c \in stored}

HeldOnce(file, key) ==
    key \in DOMAIN file =>
        \A k, l \in DOMAIN file[key] :
            file[key][k].comment_id = file[key][l].comment_id => k = l

\* C14: when no call has raised, get_video_comments(v) returns on each
\* backend exactly the comments given to the save_comments calls for v so
\* far, each once and stamped with v, so both backends return the same set.
C14_CommentsUpserted ==
    ~ret.failed =>
        /\ CommentIdsOf(SqlGetVideoComments(db, "v1")) = DOMAIN ret.given_comments.sql
        /\ CommentIdsOf(FileGetVideoComments(fs, "v1")) = DOMAIN ret.given_comments.file
        /\ \A c \in SqlGetVideoComments(db, "v1") \cup FileGetVideoComments(fs, "v1") :
              c.video_id = "v1"
        /\ HeldOnce(fs.comments, "v1")
        /\ CommentIdsOf(SqlGetVideoComments(db, "v1"))
              = CommentIdsOf(FileGetVideoComments(fs, "v1"))

\* C15: when no call has raised, get_comment_sentiment(id) returns on each
\* backend the label and score of the latest save_sentiment_results that
\* mentioned the id, for every id ever saved, and a sentiment file holds a
\* comment id once.
C15_LatestSentimentKept ==
    ~ret.failed =>
        /\ DOMAIN db.sentiments = DOMAIN ret.given_sentiments.sql
        /\ \A id \in DOMAIN ret.given_sentiments.sql :
              SqlGetCommentSentiment(db, id) = Some(ret.given_sentiments.sql[id])
        /\ \A id \in DOMAIN ret.given_sentiments.file :
              /\ FileGetCommentSentiment(fs, id) = Some(ret.given_sentiments.file[id])
              /\ HeldOnce(fs.sentiment, SplitPrefix(id))

\* Every call of the task to the data source and to the sentiment model
\* returned, and no storage write was made to fail.
ExternalCallsSucceeded(t) ==
    /\ t.fetch_error = None
    /\ t.snippet
    /\ t.fetched # "raised"
    /\ t.scored # "raised"
    /\ t.write_failed = {}

StoredSentiment(comment_id) ==
    IF cfg.backend = "file" THEN FileGetCommentSentiment(fs, comment_id)
    ELSE SqlGetCommentSentiment(db, comment_id)

\* C17: with saving on and the storage the analyzer obtains by name from
\* StorageFactory, a run of the task whose external calls all succeed
\* returns its summary, and then the video is stored, the stored comments of
\* the video are exactly the fetched ones, and every scored comment has its
\* label and score stored.
C17_ResultsPersisted ==
    \A i \in DOMAIN tasks :
        (/\ cfg.save
         /\ cfg.wrapped
         /\ tasks[i].pc \in {"done", "failed"}
         /\ ExternalCallsSucceeded(tasks[i])) =>
            /\ tasks[i].pc = "done"
            /\ tasks[i].video_id \in DOMAIN StoredVideos
            /\ CommentIdsOf(StoredComments(tasks[i].video_id))
                  = {tasks[i].comments[k].comment_id : k \in DOMAIN tasks[i].comments}
            /\ \A k \in DOMAIN tasks[i].sentiment_results :
                  StoredSentiment(tasks[i].sentiment_results[k].comment_id)
                    = Some([label |-> tasks[i].sentiment_results[k].label,
                            score |-> tasks[i].sentiment_results[k].score])

\* The decision of needs_reanalysis at time t on the instants a stored row
\* holds (both timestamps taken as UTC).
RowNeedsReanalysis(row, t, max_age_days, force_recent_days) ==
    NeedsReanalysis(
        [published_at |-> IF row.published_at = Null THEN Null
                          ELSE Some(Utc(row.published_at[1])),
         last_analyzed_at |-> Some(Utc(row.last_analyzed_at))],
        t, max_age_days, force_recent_days)

\* Every stored video has a publish time.
AllPublished ==
    /\ \A v \in DOMAIN db.videos : db.videos[v].published_at # Null
    /\ \A v \in DOMAIN fs.info : fs.info[v].published_at # Null

\* C18: when every stored video has a publish time, get_videos_needing_analysis
\* returns, on each backend, exactly the stored videos that need reanalysis
\* at the time of the call, and the two backends decide alike for a video
\* both hold with the same timestamps.
C18_NeedingAnalysisAgree ==
    (ret.call = "get_videos_needing_analysis" /\ AllPublished) =>
        LET q == ret.needing[1] IN
        /\ ret.sql = "returned"
        /\ ret.file = "returned"
        /\ q.sql = {v \in DOMAIN db.videos :
                      RowNeedsReanalysis(db.videos[v], now, q.max_age_days,
                                         q.force_recent_days) = "True"}
        /\ q.file = {v \in DOMAIN fs.info :
                       RowNeedsReanalysis(fs.info[v], now, q.max_age_days,
                                          q.force_recent_days) = "True"}
        /\ \A v \in DOMAIN db.videos \cap DOMAIN fs.info :
              db.videos[v] = fs.info[v] => (v \in q.sql <=> v \in q.file)

\* ------------------------------------------------------------------ policy claims
\* C19: a video whose last_analyzed_at is absent needs reanalysis, whatever
\* its published_at (absent, aware or naive), the time and the thresholds.
C19_NeverAnalyzedNeedsAnalysis ==
    (ret.called /\ ret.video.last_analyzed_at = Null) =>
        /\ ret.result = "True"
        /\ ret.file_result = "True"

C19_Witness ==
    /\ ret.called
    /\ ret.video.last_analyzed_at = Null
    /\ ret.video.published_at = Null
    /\ ret.max_age_days = 30
    /\ ret.result = "True"

\* Both timestamps of the video are present and aware, as now is.
Comparable(video) ==
    /\ video.published_at # Null
    /\ video.last_analyzed_at # Null
    /\ video.published_at[1].tzinfo = "utc"
    /\ video.last_analyzed_at[1].tzinfo = "utc"

VideoAge == now - ret.video.published_at[1].at
SinceAnalysis == now - ret.video.last_analyzed_at[1].at

C21_OldVideoByAnalysisAge ==
    (/\ ret.called
     /\ Comparable(ret.video)
     /\ VideoAge \div MinutesPerDay > ret.force_recent_days) =>
        /\ ret.result \in {"True", "False"}
        /\ ret.result = "True" <=>
              SinceAnalysis \div MinutesPerDay >= ret.max_age_days
        /\ (VideoAge = 100 * MinutesPerDay /\ ret.max_age_days = 30) =>
              /\ SinceAnalysis = 29 * MinutesPerDay => ret.result = "False"
              /\ SinceAnalysis = 30 * MinutesPerDay - 1 => ret.result = "False"
              /\ SinceAnalysis = 30 * MinutesPerDay => ret.result = "True"

C21_Witness ==
    /\ ret.called
    /\ Comparable(ret.video)
    /\ VideoAge = 100 * MinutesPerDay
    /\ ret.max_age_days = 30
    /\ ret.force_recent_days = 7
    /\ SinceAnalysis = 30 * MinutesPerDay
    /\ ret.result = "True"

\* ------------------------------------------------------------------ filter claims
\* The present timestamps of the comment are all aware or all naive.
ComparableComment(comment) ==
    (comment.updated_at # Null /\ comment.last_analyzed_at # Null) =>
        ~CompareRaises(comment.updated_at, comment.last_analyzed_at)

\* C22: comment.needs_reanalysis() returns True when last_analyzed_at is
\* absent or updated_at is present and later than last_analyzed_at, and
\* returns the boolean False otherwise (updated_at absent, or not later).
C22_CommentRuleBoolean ==
    (/\ ret.called = "needs_reanalysis"
     /\ ComparableComment(ret.items[ret.subject])) =>
        LET comment == ret.items[ret.subject]
            needs == \/ comment.last_analyzed_at = Null
                     \/ /\ comment.updated_at # Null
                        /\ comment.updated_at[1].at > comment.last_analyzed_at[1].at
        IN ret.result = IF needs THEN "True" ELSE "False"

\* The predicate of the called filter holds of the item.
ItemNeeds(item) ==
    IF ret.kind = "comment" THEN Truthy(CommentNeedsReanalysis(item))
    ELSE Truthy(NeedsReanalysis(item, now, ret.max_age_days, ret.force_recent_days))
ItemSkips(item) == ~ItemNeeds(item)
ItemRaises(item) ==
    IF ret.kind = "comment" THEN CommentNeedsReanalysis(item) = "TypeError"
    ELSE NeedsReanalysis(item, now, ret.max_age_days, ret.force_recent_days) = "TypeError"

Ids(items) == [i \in 1..Len(items) |-> items[i].id]
Increasing(ids) == \A i, j \in 1..Len(ids) : i < j => ids[i] < ids[j]

\* C23: a filter_needs_reanalysis call that returns gives a stable
\* partition of its list: every item is in exactly one of needs_analysis and
\* skip_analysis, needs_analysis holds exactly the items of which the
\* predicate is true, and both lists are in input order; the call raises
\* only when the predicate raises on an item.
C23_StablePartition ==
    ret.called = "filter_needs_reanalysis" =>
        /\ ret.raised = None =>
              /\ ret.needs_analysis = SelectSeq(ret.items, ItemNeeds)
              /\ ret.skip_analysis = SelectSeq(ret.items, ItemSkips)
              /\ Range(ret.needs_analysis) \cap Range(ret.skip_analysis) = {}
              /\ Range(ret.needs_analysis) \cup Range(ret.skip_analysis) = Range(ret.items)
              /\ Len(ret.needs_analysis) + Len(ret.skip_analysis) = Len(ret.items)
              /\ Increasing(Ids(ret.needs_analysis))
              /\ Increasing(Ids(ret.skip_analysis))
        /\ ret.raised # None => \E i \in 1..Len(ret.items) : ItemRaises(ret.items[i])

C23_Witness ==
    /\ ret.called = "filter_needs_reanalysis"
    /\ ret.kind = "comment"
    /\ ret.raised = None
    /\ Len(ret.items) = 3
    /\ ItemNeeds(ret.items[1]) /\ ItemSkips(ret.items[2]) /\ ItemNeeds(ret.items[3])
    /\ Ids(ret.needs_analysis) = <<1, 3>>
    /\ Ids(ret.skip_analysis) = <<2>>

\* ------------------------------------------------------------------ cache claims
\* The last n elements of a sequence (all of it when it is shorter).
LastN(seq, n) ==
    IF Len(seq) <= n THEN seq ELSE SubSeq(seq, Len(seq) - n + 1, Len(seq))

CacheOf(name) ==
    IF name = "video" THEN clients[1].video_cache
    ELSE IF name = "channel" THEN clients[1].channel_cache
    ELSE clients[1].playlist_cache

\* C24: with caching on and max_cache_items N >= 1, after any sequence of
\* get_video / get_channel / get_playlist calls each cache holds at most N
\* entries, and they are the N most recently inserted keys in insertion
\* order (N = 2 and inserts a, b, c leave b, c); a call that hits returns
\* the very object the cache held and leaves the cache as it was.
C24_CacheFifoBounded ==
    (cfg.use_cache /\ cfg.max_cache_items >= 1) =>
        /\ \A name \in {"video", "channel", "playlist"} :
              /\ Len(CacheOf(name)) <= cfg.max_cache_items
              /\ Keys(CacheOf(name)) = LastN(ret.inserted[name], cfg.max_cache_items)
        /\ (cfg.max_cache_items = 2 /\ ret.inserted.video = <<"a", "b", "c">>) =>
              Keys(clients[1].video_cache) = <<"b", "c">>
        /\ ret.last.hit =>
              /\ ret.last.held = Some(ret.last.returned)
              /\ CacheOf(ret.last.cache) = ret.last.before
        /\ (ret.n > 0 /\ ~ret.last.hit) =>
              /\ ret.last.held = Null
              /\ ret.last.returned = ret.created

C24_Witness ==
    /\ cfg.use_cache
    /\ cfg.max_cache_items = 2
    /\ ret.inserted.video = <<"a", "b", "c">>
    /\ Keys(clients[1].video_cache) = <<"b", "c">>
    /\ ret.last.hit
    /\ ret.last.key = "b"

\* ------------------------------------------------------------------ registry claims
\* The class most recently registered under a name with the given lowercase
\* form: by the caller, else at the import.
RECURSIVE LatestRegistered(_, _)
LatestRegistered(registered, key) ==
    IF registered = <<>>
    THEN IF key = "file" THEN Some("FileStorage")
         ELSE IF key = "sqlite" THEN Some("SQLiteStorage")
         ELSE Null
    ELSE LET last == registered[Len(registered)] IN
         IF Lower(last[1]) = key THEN Some(last[2])
         ELSE LatestRegistered(SubSeq(registered, 1, Len(registered) - 1), key)

RegisteredNames ==
    {"file", "sqlite"} \cup {Lower(ret.registered[i][1]) : i \in 1..Len(ret.registered)}

\* C25: create_storage with a name whose lowercase form is not registered
\* raises ValueError naming the given type and listing every registered
\* name, calls no storage class and leaves the registry as it was.
C25_UnknownNameRejected ==
    (ret.last.call = "create" /\ Lower(ret.last.name) \notin RegisteredNames) =>
        /\ ret.last.raised = "ValueError"
        /\ ret.last.message # Null
        /\ ret.last.message[1].storage_type = ret.last.name
        /\ Range(ret.last.message[1].registered_types) = RegisteredNames
        /\ ret.last.invoked = Null
        /\ ret.registry = ret.last.before

C25_Witness ==
    /\ ret.last.call = "create"
    /\ ret.last.name = "unknown"
    /\ ret.last.raised = "ValueError"
    /\ Range(ret.last.message[1].registered_types) = {"file", "sqlite", "redis"}

\* C26: after the import and any register calls the registry holds exactly
\* the lowercase forms of the built-in and registered names, each with the
\* class registered last for it; create_storage(n, **kwargs) with the
\* lowercase form of n registered calls that class with the keywords, and
\* 'file' and 'sqlite' are registered by the import.
C26_RegisterAddsOrReplaces ==
    ret.loaded =>
        /\ Range(Keys(ret.registry)) = RegisteredNames
        /\ \A i, j \in 1..Len(ret.registry) :
              ret.registry[i].key = ret.registry[j].key => i = j
        /\ \A i \in 1..Len(ret.registry) :
              Some(ret.registry[i].value)
                 = LatestRegistered(ret.registered, ret.registry[i].key)
        /\ ret.registered = <<>> =>
              ret.registry = <<Entry("file", "FileStorage"), Entry("sqlite", "SQLiteStorage")>>
        /\ (ret.last.call = "create" /\ Lower(ret.last.name) \in RegisteredNames) =>
              /\ ret.last.invoked # Null
              /\ Some(ret.last.invoked[1].storage_class)
                    = LatestRegistered(ret.registered, Lower(ret.last.name))
              /\ ret.last.invoked[1].kwargs = ret.last.kwargs
              /\ ret.last.raised # "ValueError"
              /\ ret.registry = ret.last.before

C26_Witness ==
    /\ ret.registered = <<<<"Redis", "RedisStorage">>, <<"redis", "OtherStorage">>>>
    /\ ret.last.call = "create"
    /\ ret.last.name = "Redis"
    /\ ret.last.invoked = Some([storage_class |-> "OtherStorage",
                                kwargs |-> {"path", "db_name"}])

\* ------------------------------------------------------------------ entry point claims
\* analyze_channel / analyze_playlist has ended without ever obtaining the
\* details of its channel or playlist: get_channel / get_playlist raised, or
\* no details request of the wrapper succeeded.
ResolveFailed ==
    /\ orch.entry \in {"analyze_channel", "analyze_playlist"}
    /\ orch.pc \in {"returned", "raised"}
    /\ ~orch.snippet

\* The storage method was called (the object of the registry has no such
\* method: there the attribute lookup fails before any call).
StorageCalled(name) == ~cfg.wrapped /\ name \in Range(orch.calls)

\* C27: when the channel or playlist cannot be resolved, analyze_channel /
\* analyze_playlist returns [] with no exception, calls neither
\* save_channel nor save_playlist and dispatches no video task.
C27_ResolveFailureIsEmpty ==
    ResolveFailed =>
        /\ orch.pc = "returned"
        /\ orch.error = None
        /\ orch.results = <<>>
        /\ ~StorageCalled("save_channel")
        /\ ~StorageCalled("save_playlist")
        /\ tasks = <<>>

\* The collaborator calls of analyze_channel / analyze_playlist with save on.
EntryCalls ==
    IF orch.entry = "analyze_channel"
    THEN <<"get_channel", "save_channel", "save_playlist", "get_video_ids">>
    ELSE <<"get_playlist", "save_channel", "save_playlist", "get_video_ids">>

IsPrefix(s, t) == Len(s) <= Len(t) /\ s = SubSeq(t, 1, Len(s))

C29_AllTasksTerminate ==
    /\ \A i \in 1..LiveBatch :
          (i \in DOMAIN tasks) ~> (i \in DOMAIN tasks /\ Finished(tasks[i]))
    /\ (orch.pc = "as_completed") ~> (orch.pc = "returned")
    /\ [](orch.pc = "returned" => \A i \in DOMAIN tasks : Finished(tasks[i]))

C29_Witness ==
    /\ orch.entry = "analyze_multiple_videos"
    /\ orch.pc = "returned"
    /\ Len(tasks) = LiveBatch
    /\ \E i \in DOMAIN tasks : tasks[i].pc = "failed"
    /\ \E i \in DOMAIN tasks : tasks[i].pc = "done"

\* ------------------------------------------------------------------ summary claims
\* The sum of the values of a function with a finite domain.
RECURSIVE SumOf(_)
SumOf(f) ==
    IF DOMAIN f = {} THEN 0
    ELSE LET l == CHOOSE l \in DOMAIN f : TRUE
         IN f[l] + SumOf([k \in DOMAIN f \ {l} |-> f[k]])

\* C30: in the summary a run returns, comment_count is the number of its
\* comments, sentiment_summary has exactly the labels that occur in its
\* sentiment_results, each with the number of results carrying it, the
\* counts add up to the number of results, and video_id and video_title
\* are the id and title of the video the task fetched (the title the
\* wrapper gave: None when the details request behind the title read
\* failed).
C30_SummaryConsistent ==
    \A i \in DOMAIN tasks :
        tasks[i].pc = "done" =>
            LET summary == PrepareResults(tasks[i])
                results == summary.sentiment_results
            IN /\ summary.comment_count = Len(summary.comments)
               /\ summary.comments = tasks[i].comments
               /\ DOMAIN summary.sentiment_summary
                     = {results[k].label : k \in 1..Len(results)}
               /\ \A l \in DOMAIN summary.sentiment_summary :
                     /\ summary.sentiment_summary[l]
                           = Cardinality({k \in 1..Len(results) : results[k].label = l})
                     /\ summary.sentiment_summary[l] >= 1
               /\ SumOf(summary.sentiment_summary) = Len(results)
               /\ summary.video_id = tasks[i].url_or_id
               /\ summary.video_title =
                     IF tasks[i].snippet /\ tasks[i].requests = 1
                     THEN TitleOf(tasks[i].url_or_id) ELSE None
               /\ tasks[i].collected =>
                     \E k \in 1..Len(orch.results) : orch.results[k] = summary

C30_Witness ==
    /\ orch.pc = "returned"
    /\ Len(orch.results) = 1
    /\ orch.results[1].video_id = "v1"
    /\ orch.results[1].video_title = "Title 1"
    /\ orch.results[1].comment_count = 2
    /\ orch.results[1].sentiment_summary = [positive |-> 1, negative |-> 1]
    /\ Len(orch.results[1].sentiment_results) = 2

\* ------------------------------------------------------------------ C31
\* C31: after any sequence of storage operations on the SQLiteStorage every
\* stored comment row names a stored video row as its video_id, and every
\* stored sentiment row has the comment_id of a stored comment row.
C31_NoOrphans ==
    /\ \A c \in DOMAIN db.comments : db.comments[c].video_id \in DOMAIN db.videos
    /\ \A r \in DOMAIN db.sentiments : r \in DOMAIN db.comments

\* ------------------------------------------------------------------ C32
\* C32: a task is about to call save_comments only with saving enabled and a
\* non-empty comment list, and save_sentiment_results only with saving
\* enabled and a non-empty list of sentiment results.
C32_NoEmptyWrites ==
    \A i \in DOMAIN tasks :
        /\ tasks[i].pc = "save_comments" => cfg.save /\ tasks[i].comments # <<>>
        /\ tasks[i].pc = "save_sentiment_results" =>
                cfg.save /\ tasks[i].sentiment_results # <<>>

\* ------------------------------------------------------------------ C33
\* C33: no text given to analyze_batch has more tokens than the model takes
\* (max_tokens); a comment whose text is longer is left out of the batch.
C33_NoOverlongScored ==
    \A i \in DOMAIN tasks :
        \A k \in DOMAIN tasks[i].texts : TokenLength(tasks[i].texts[k]) <= MaxTokens

\* ------------------------------------------------------------------ C34
\* C34: the comments get_comments returned, one with updated_at None among
\* them or not, are all in the task's comment set (with the updated_at they
\* came with) unless a storage write of the task failed.
C34_NullUpdatedAtKept ==
    \A i \in DOMAIN tasks :
        (tasks[i].fetched = "returned" /\ tasks[i].write_failed = {}) =>
            /\ Len(tasks[i].comments) = Len(tasks[i].api_comments)
            /\ \A k \in DOMAIN tasks[i].api_comments :
                  /\ tasks[i].comments[k].comment_id = tasks[i].api_comments[k].comment_id
                  /\ tasks[i].api_comments[k].updated_at # None =>
                        tasks[i].comments[k].updated_at
                            = ParseIso(tasks[i].api_comments[k].updated_at)

\* ------------------------------------------------------------------ C35
\* C35: every operation of the storage contract called on the object
\* create_storage returned has the outcome, the result and the effect on the
\* tables of the same call on the SQLiteStorage it was created for.
C35_CreatedStorageIsBackend ==
    ret.call \in ContractOperations =>
        /\ ret.created[1].outcome = ret.concrete[1].outcome
        /\ ret.created[1].result = ret.concrete[1].result
        /\ ret.created[1].db = ret.concrete[1].db

\* ------------------------------------------------------------------ C36
\* C36: after analyze_channel with save enabled has returned the results of
\* its video tasks, the channel row of the SQLiteStorage is still the full
\* record analyze_channel saved (custom_url, subscriber_count, video_count,
\* view_count, published_at, country, uploads_playlist_id).
C36_ChannelRecordKept ==
    (/\ orch.entry = "analyze_channel"
     /\ orch.pc = "returned"
     /\ orch.caught = None
     /\ cfg.save /\ cfg.backend = "sqlite" /\ ~cfg.wrapped) =>
        /\ "UC1" \in DOMAIN db.channels
        /\ db.channels["UC1"] = FullChannelData("UC1")

\* ------------------------------------------------------------------ C37
\* C37: with saving enabled a task reaches its save_comments call only after
\* its save_video returned, with the video stored, and reaches its
\* save_sentiment_results call only after its save_comments returned, with
\* every comment_id of the results among the comments that call was given;
\* when no other task writes to the store these comments are stored for the
\* video at that moment.
C37_ParentsSavedFirst ==
    \A i \in DOMAIN tasks :
        LET t == tasks[i]
            called(name) == name \in Range(t.calls)
        IN cfg.save =>
            /\ (t.pc = "save_comments" \/ called("save_comments")) =>
                  /\ called("save_video")
                  /\ "save_video" \notin t.write_failed
                  /\ t.video_id \in DOMAIN StoredVideos
            /\ (t.pc = "save_sentiment_results" \/ called("save_sentiment_results")) =>
                  /\ called("save_comments")
                  /\ "save_comments" \notin t.write_failed
            /\ t.pc = "save_sentiment_results" =>
                  \A k \in DOMAIN t.sentiment_results :
                      /\ \E j \in DOMAIN t.comments :
                            t.comments[j].comment_id = t.sentiment_results[k].comment_id
                      /\ Len(tasks) = 1 =>
                            \E c \in StoredComments(t.video_id) :
                                c.comment_id = t.sentiment_results[k].comment_id

\* A saving run on a video not stored before is about to save the results
\* of its two stored comments.
C37_Witness ==
    /\ cfg.save
    /\ Len(tasks) = 1
    /\ tasks[1].pc = "save_sentiment_results"
    /\ tasks[1].video_id = "v2"
    /\ Len(tasks[1].sentiment_results) = 2
    /\ tasks[1].write_failed = {}

\* ------------------------------------------------------------------ C38
\* The tasks of a saving run whose save_video returned and whose comments
\* fetch or scoring then raised.
StampedThenFailed ==
    {i \in DOMAIN tasks :
        /\ cfg.save
        /\ "save_video" \in Range(tasks[i].calls)
        /\ "save_video" \notin tasks[i].write_failed
        /\ tasks[i].fetched = "raised" \/ tasks[i].scored = "raised"}

\* C38: save_video stamps the video's last_analyzed_at with the time of the
\* run before the comments are fetched, and a later failure of the comments
\* fetch or of the scoring leaves the stamp; so a get_videos_needing_analysis
\* with max_age_days >= 1 made while fewer than max_age_days whole days have
\* passed since the run does not return the video when it is older than
\* force_recent_days, and where the call returns after max_age_days days it
\* holds the video again.
C38_StampedBeforeComments ==
    \A i \in DOMAIN tasks :
        LET t == tasks[i]
            v == t.video_id
        IN /\ (cfg.save /\ t.pc \in {"fetch_comments", "save_comments", "analyze_sentiment",
                                     "save_sentiment_results", "done"}) =>
                 /\ v \in DOMAIN StoredVideos
                 /\ StoredVideos[v].last_analyzed_at = Today
           /\ (/\ i \in StampedThenFailed
               /\ ret.call = "get_videos_needing_analysis"
               /\ ret.max_age_days >= 1
               /\ now - StoredVideos[v].published_at > ret.force_recent_days) =>
                 /\ now - Today < ret.max_age_days => v \notin ret.ids
                 /\ (now - Today >= ret.max_age_days /\ ret.outcome = "returned") =>
                        v \in ret.ids

\* A saving run on FileStorage whose comments fetch raised; 29 days later the
\* video is not among the videos needing analysis of thresholds 30 and 7.
C38_Witness ==
    /\ cfg.backend = "file"
    /\ StampedThenFailed = {1}
    /\ tasks[1].fetched = "raised"
    /\ now = Today + 29
    /\ ret.call = "get_videos_needing_analysis"
    /\ ret.outcome = "returned"
    /\ ret.max_age_days = 30
    /\ ret.force_recent_days = 7
    /\ tasks[1].video_id \notin ret.ids

\* ------------------------------------------------------------------ C39
\* C39: the k-th sentiment result of a task has the comment_id of the task's
\* k-th comment, and the k-th text given to analyze_batch is that comment's
\* text; there are never more sentiment results than comments, and when
\* analyze_batch returned more results than it was given texts the task has
\* no sentiment results at all.
C39_ResultsFollowComments ==
    \A i \in DOMAIN tasks :
        LET t == tasks[i]
        IN /\ Len(t.sentiment_results) <= Len(t.comments)
           /\ t.scored # "no" => t.texts = CommentTexts(t.comments)
           /\ \A k \in DOMAIN t.sentiment_results :
                /\ t.sentiment_results[k].comment_id = t.comments[k].comment_id
                /\ t.texts[k] = t.comments[k].text
           /\ (t.scored = "returned" /\ t.returned > Len(t.texts)) =>
                t.sentiment_results = <<>>

\* analyze_batch was given the texts of two comments and returned three
\* results; the task is done without sentiment results.
C39_Witness ==
    \E i \in DOMAIN tasks :
        /\ tasks[i].pc = "done"
        /\ tasks[i].scored = "returned"
        /\ Len(tasks[i].comments) = ScoringComments
        /\ tasks[i].texts = CommentTexts(tasks[i].comments)
        /\ tasks[i].returned = ScoringComments + 1
        /\ tasks[i].sentiment_results = <<>>
====
